---------------------------- MODULE Spec2Model ----------------------------
(***************************************************************************)
(* Model of the data-preparation notebook of the browsing-selection        *)
(* project (src/Implementation/Data_preparation.ipynb) and, further down,  *)
(* of its forecast notebook (src/Pipeline/Browsing_forecast.ipynb).        *)
(*                                                                         *)
(* The notebook is a linear script: each code cell is one or more steps of *)
(* the state machine below (a cell that loops over the forests is one step *)
(* per forest).  An exception that no try/except catches stops the         *)
(* notebook: err names the exception, pc stays at the cell that raised it  *)
(* and no further step is taken.                                           *)
(*                                                                         *)
(* Representation.                                                         *)
(*   - A Python string is the sequence of its characters (one-character    *)
(*     TLA+ strings), so that split, join, lower, startswith and the `in`  *)
(*     substring test are computed and not assumed.                        *)
(*   - A numpy array with a header row is a record [header, rows]: header  *)
(*     is array row 0, rows are the array rows 1.. in order.               *)
(*   - Counts are integers.  The results of true divisions (coverage,      *)
(*     supply percentage) are exact rationals <<num, den>> in lowest terms *)
(*     with den > 0; floating-point rounding is not modelled.              *)
(*   - Python indices are 0-based; Cell and Slice below convert.           *)
(***************************************************************************)
EXTENDS Integers, Sequences, FiniteSets, TLC

VARIABLES
    files,          \* input: per forest folder, the .xlsx files in listdir order
    pc,             \* the cell (and loop) the notebook is executing
    err,            \* the uncaught exception, "none" while running
    fi,             \* index of the forest the current loop is at
    ki,             \* index of the file the reading loop is at
    paths_data,     \* reading loop: the aggregated paths of the current folder
    log,            \* the global correction log
    warned,         \* files reported by warnings.warn in the reading loop
    forests,        \* dict forests, as the sequence of its values in insertion order
    distributions,  \* dict distributions, same order
    species,        \* the unique species of the whole dataset
    nr_rows,        \* total number of sampling points
    dataset,        \* the combined dataset
    dataset_row,    \* merge loop: the dataset row the next sampling point goes to
    target_values,                  \* the freshly browsed columns of the dataset
    target_values_distinguished,    \* the same with the no-supply value
    predictor_values,               \* the other columns of the dataset
    saved,          \* the files np.savetxt has written, in order
    \* Browsing_forecast.ipynb
    forest_data,        \* input: forest_data.xlsx and the folder Models
    ts_values,          \* the table of total shoots, one row per sampling point
    properties_table,   \* rows 1 and 2 of the table: F and RPS per species
    unaggregated_data,  \* TS, F and RPS per sampling point
    section_data,       \* the array data: TS, F and RPS per section of 5 sampling points
    models,             \* the loaded models, each as the values it predicts for the rows of data
    section_estimates,  \* adjusted predictions per section and species
    forest_estimates,   \* forecast per species
    printed,            \* the lines printed as results
    output              \* the table written to browsing_forecast.csv

\* The variables of the cells after the merge
split_vars == <<target_values, target_values_distinguished, predictor_values, saved>>

\* The variables of Data_preparation.ipynb other than pc, err and species
preparation_vars ==
    <<files, fi, ki, paths_data, log, warned, forests, distributions, nr_rows,
      dataset, dataset_row, split_vars>>

\* The variables of Browsing_forecast.ipynb other than pc, err and species
forecast_vars ==
    <<forest_data, ts_values, properties_table, unaggregated_data, section_data, models,
      section_estimates, forest_estimates, printed, output>>

vars == <<pc, err, species, preparation_vars, forecast_vars>>

---------------------------------------------------------------------------
(* Python sequences and strings                                            *)

Cell(row, c) == row[c + 1]

Slice(row, a, b) == SubSeq(row, a + 1, b)

Range(s) == {s[i] : i \in 1..Len(s)}

RECURSIVE NpSum(_)
NpSum(s) == IF s = <<>> THEN 0 ELSE Head(s) + NpSum(Tail(s))

RECURSIVE Flatten(_)
Flatten(ss) == IF ss = <<>> THEN <<>> ELSE Head(ss) \o Flatten(Tail(ss))

\* str.split(' '): the maximal space-free pieces, empty pieces included.
RECURSIVE Split(_)
Split(s) ==
    IF \A i \in 1..Len(s) : s[i] # " "
    THEN <<s>>
    ELSE LET p == CHOOSE i \in 1..Len(s) :
                      s[i] = " " /\ \A k \in 1..(i - 1) : s[k] # " "
         IN  <<SubSeq(s, 1, p - 1)>> \o Split(SubSeq(s, p + 1, Len(s)))

\* ' '.join(tokens)
RECURSIVE Join(_)
Join(tokens) ==
    IF tokens = <<>> THEN <<>>
    ELSE IF Len(tokens) = 1 THEN tokens[1]
    ELSE tokens[1] \o <<" ">> \o Join(Tail(tokens))

\* seq[:-2]
DropLast2(s) == SubSeq(s, 1, Len(s) - 2)

\* seq[-2:]
Last2(s) == SubSeq(s, IF Len(s) > 2 THEN Len(s) - 1 ELSE 1, Len(s))

UPPERCASE == <<"A", "B", "C", "D", "E", "F", "G", "H", "I", "J", "K", "L", "M",
               "N", "O", "P", "Q", "R", "S", "T", "U", "V", "W", "X", "Y", "Z">>

LOWERCASE == <<"a", "b", "c", "d", "e", "f", "g", "h", "i", "j", "k", "l", "m",
               "n", "o", "p", "q", "r", "s", "t", "u", "v", "w", "x", "y", "z">>

\* str.lower()
Lower(s) ==
    [i \in 1..Len(s) |->
        IF \E u \in 1..Len(UPPERCASE) : UPPERCASE[u] = s[i]
        THEN LOWERCASE[CHOOSE u \in 1..Len(UPPERCASE) : UPPERCASE[u] = s[i]]
        ELSE s[i]]

\* s.startswith(p)
StartsWith(s, p) == Len(s) >= Len(p) /\ SubSeq(s, 1, Len(p)) = p

\* sub in s
Contains(s, sub) ==
    \E a \in 1..(Len(s) - Len(sub) + 1) : SubSeq(s, a, a + Len(sub) - 1) = sub

\* unique, indices = np.unique(s, return_index=True); unique[np.argsort(indices)]:
\* the distinct values of s, ordered by the index of their first occurrence.
RECURSIVE UniqueByFirstIndex(_)
UniqueByFirstIndex(s) ==
    IF s = <<>> THEN <<>>
    ELSE LET r == UniqueByFirstIndex(SubSeq(s, 1, Len(s) - 1))
             x == s[Len(s)]
         IN  IF x \in Range(r) THEN r ELSE Append(r, x)

\* ' '.join(cell.split(' ')[:-2]): the species part of a header cell.
SpeciesOf(cell) == Join(DropLast2(Split(cell)))

\* ' '.join(cell.split(' ')[-2:]): the feature part of a header cell.
FeatureOf(cell) == Join(Last2(Split(cell)))

---------------------------------------------------------------------------
(* Header texts                                                            *)

ALL_SHOOTS == <<" ", "a", "l", "l", " ", "s", "h", "o", "o", "t", "s">>

FRESHLY_BROWSED == <<" ", "f", "r", "e", "s", "h", "l", "y", " ",
                     "b", "r", "o", "w", "s", "e", "d">>

OLD_BROWSED == <<" ", "o", "l", "d", " ", "b", "r", "o", "w", "s", "e", "d">>

FOREST_COVERAGE == <<" ", "f", "o", "r", "e", "s", "t", " ",
                     "c", "o", "v", "e", "r", "a", "g", "e">>

SUPPLY_PERCENTAGE == <<" ", "s", "u", "p", "p", "l", "y", " ",
                       "p", "e", "r", "c", "e", "n", "t", "a", "g", "e">>

UNKNOWN == <<"U", "n", "k", "n", "o", "w", "n">>

FAJ == <<"f", "a", "j">>

ISMERETLEN == <<"i", "s", "m", "e", "r", "e", "t", "l", "e", "n">>

\* A header cell of np.zeros(..., dtype=object) that was never assigned: the
\* number 0, not a string.  String methods on it raise.
UNLABELLED == <<"<0>">>

IsStr(cell) == cell # UNLABELLED

---------------------------------------------------------------------------
(* Input: the survey spreadsheets                                          *)

\* The sheet of one sampling path, as far as the notebook reads it: whether
\* read_forest_data can load it, the species names of its 9-column blocks
\* and one row of 9 counts per block for every sampling point.
SheetFile(names, points) == [readable |-> TRUE, names |-> names, points |-> points]

\* A file on which read_forest_data raises (no marker cell, no such sheet).
UnreadableFile == [readable |-> FALSE, names |-> <<>>, points |-> <<>>]

\* Blocks of 9 counts: 4 x all shoots, 4 x freshly browsed, 1 x old browsed.
BlockNone == <<0, 0, 0, 0, 0, 0, 0, 0, 0>>

BlockOver == <<2, 0, 0, 0, 3, 0, 0, 0, 1>>

BlockUnder == <<1, 0, 2, 0, 0, 1, 0, 0, 2>>

BlockEqual == <<0, 1, 0, 1, 1, 0, 0, 1, 0>>

BlockUnbrowsed == <<1, 0, 0, 1, 0, 0, 0, 0, 0>>

NameFaj == <<"f", "a", "j", "1">>

NameIsmeretlen == <<"I", "s", "m", "e", "r", "e", "t", "l", "e", "n", "2">>

NameBodza == <<"B", "o", "d", "z", "a">>

NameMezeiSzil == <<"M", "e", "z", "e", "i", " ", "s", "z", "i", "l">>

\* A species that names_dict has no entry for
NameSom == <<"S", "o", "m">>

\* All sheets of at most maxSpecies blocks named from names, with `points`
\* sampling points whose blocks are drawn from blocks.
SheetFiles(names, maxSpecies, points, blocks) ==
    UNION {
        {SheetFile(n, p) :
            n \in [1..s -> names],
            p \in [1..points -> {Flatten(b) : b \in [1..s -> blocks]}]}
        : s \in 1..maxSpecies}

---------------------------------------------------------------------------
(* read_forest_data                                                        *)

\* num_rows = SAMPLING_POINTS + 3: the array has 3 header rows (species names,
\* count headers, and the sheet's own third header row) before the counts.
RAW_HEADER_ROWS == 3

\* The array read_forest_data returns: header is array row 0 (each species
\* name broadcast over the 9 columns of its block), body the count rows, that
\* is the array rows RAW_HEADER_ROWS.. in order.
read_forest_data(file) ==
    [header |-> [c \in 1..(9 * Len(file.names)) |-> file.names[((c - 1) \div 9) + 1]],
     body   |-> file.points]

\* np.shape(data)[0] of a raw array
RawShape0(data) == Len(data.body) + RAW_HEADER_ROWS

\* data[r, :] of a raw array, for a count row r
RawRow(data, r) == data.body[r - RAW_HEADER_ROWS + 1]

---------------------------------------------------------------------------
(* aggregate_data                                                          *)

\* One line of the log: the text of its f-string, kept as its fields.
LogFix(sp, i, shoots, browsed) ==
    [kind |-> "fix", file |-> <<>>, species |-> sp, row |-> i,
     all |-> shoots, fresh |-> browsed]

\* Mutant: every line of a folder naming its first file.
LogFile_first(f, k) ==
    [kind |-> "file", file |-> <<f, 1>>, species |-> <<>>, row |-> 0,
     all |-> 0, fresh |-> 0]

\* log.append('\n' + file_name)
LogFile(f, k) ==
    [kind |-> "file", file |-> <<f, k>>, species |-> <<>>, row |-> 0,
     all |-> 0, fresh |-> 0]

\* Mutant: the slice one column short, [start : start+3].
aggregated_shoots_short(data, i, j) ==
    NpSum(Slice(RawRow(data, i + 2), j * 9, j * 9 + 3))

\* np.sum(data[i + 2, start_unaggregated:start_unaggregated+4])
aggregated_shoots(data, i, j) ==
    NpSum(Slice(RawRow(data, i + 2), j * 9, j * 9 + 4))

\* np.sum(data[i + 2, start_unaggregated+4:start_unaggregated+8])
aggregated_browsed(data, i, j) ==
    NpSum(Slice(RawRow(data, i + 2), j * 9 + 4, j * 9 + 8))

\* data[i + 2, start_unaggregated+8]
old_browsed(data, i, j) == Cell(RawRow(data, i + 2), j * 9 + 8)

\* Mutant: the correction left out.
corrected_shoots_uncorrected(shoots, browsed) == shoots

\* The value stored as "all shoots": corrected to offered + browsed when more
\* browsed than offered is recorded.
corrected_shoots(shoots, browsed) ==
    IF browsed > shoots THEN shoots + browsed ELSE shoots

\* species = unique_species[np.argsort(indices)].tolist()
aggregate_species(data) == UniqueByFirstIndex(data.header)

\* Row 0 of aggregated: three labels per entry of `species`; the columns
\* beyond 3 * len(species) keep the 0 of np.zeros.
aggregate_header(data) ==
    LET sps == aggregate_species(data)
    IN  [c \in 1..(3 * (Len(data.header) \div 9)) |->
            IF (c - 1) \div 3 < Len(sps)
            THEN sps[((c - 1) \div 3) + 1] \o
                 (CASE (c - 1) % 3 = 0 -> ALL_SHOOTS
                    [] (c - 1) % 3 = 1 -> FRESHLY_BROWSED
                    [] OTHER -> OLD_BROWSED)
            ELSE UNLABELLED]

\* The (i, j) the loops visit, in order: rows 1..nr_rows-1, species 0..nr_species-1.
aggregate_visits(data) ==
    LET nrs == Len(data.header) \div 9
    IN  [n \in 1..((RawShape0(data) - 3) * nrs) |->
            <<((n - 1) \div nrs) + 1, (n - 1) % nrs>>]

\* aggregate_data(data): whether it raised (species[j] with j beyond the
\* unique species is an IndexError), the lines it appended to the global log
\* before returning or raising, and the array it returns.
aggregate_data(data) ==
    LET nrs   == Len(data.header) \div 9
        sps   == aggregate_species(data)
        fixes == SelectSeq(aggregate_visits(data),
                     LAMBDA v : aggregated_browsed(data, v[1], v[2])
                                  > aggregated_shoots(data, v[1], v[2]))
        bad   == {n \in 1..Len(fixes) : fixes[n][2] >= Len(sps)}
        upto  == IF bad = {} THEN Len(fixes)
                 ELSE (CHOOSE n \in bad : \A m \in bad : n <= m) - 1
    IN  [raised  |-> bad # {},
         entries |-> [n \in 1..upto |->
                        LogFix(sps[fixes[n][2] + 1], fixes[n][1],
                               aggregated_shoots(data, fixes[n][1], fixes[n][2]),
                               aggregated_browsed(data, fixes[n][1], fixes[n][2]))],
         aggregated |->
            [header |-> aggregate_header(data),
             rows   |-> [i \in 1..(RawShape0(data) - 3) |->
                           Flatten([jj \in 1..nrs |->
                               <<corrected_shoots(aggregated_shoots(data, i, jj - 1),
                                                  aggregated_browsed(data, i, jj - 1)),
                                 aggregated_browsed(data, i, jj - 1),
                                 old_browsed(data, i, jj - 1)>>])]]]

---------------------------------------------------------------------------
(* combine_forest                                                          *)

\* Mutant: array[2:, :], the first sampling point of every further path lost.
combine_rows_skip(paths) ==
    Flatten([p \in 1..Len(paths) |->
                IF p = 1 THEN paths[p].rows ELSE Tail(paths[p].rows)])

\* array[1:, :] of every further path, appended below combined
combine_rows(paths) == Flatten([p \in 1..Len(paths) |-> paths[p].rows])

\* combine_forest(paths): paths[0] of an empty list is an IndexError, and
\* np.concatenate of arrays of different widths a ValueError.
combine_forest(paths) ==
    IF paths = <<>>
    THEN [raised |-> "IndexError", combined |-> [header |-> <<>>, rows |-> <<>>]]
    ELSE IF \E p \in 1..Len(paths) : Len(paths[p].header) # Len(paths[1].header)
    THEN [raised |-> "ValueError", combined |-> [header |-> <<>>, rows |-> <<>>]]
    ELSE [raised |-> "none",
          combined |-> [header |-> paths[1].header, rows |-> combine_rows(paths)]]

---------------------------------------------------------------------------
(* The reading loop                                                        *)

\* One iteration of the inner loop: one .xlsx file of the folder.
ReadFile ==
    /\ pc = "read"
    /\ err = "none"
    /\ ki <= Len(files[fi])
    /\ LET file == files[fi][ki]
           r    == aggregate_data(read_forest_data(file))
       IN  IF file.readable /\ ~r.raised
           THEN /\ log' = Append(log, LogFile(fi, ki)) \o r.entries
                /\ paths_data' = Append(paths_data, r.aggregated)
                /\ warned' = warned
           ELSE /\ log' = Append(log, LogFile(fi, ki)) \o
                          (IF file.readable THEN r.entries ELSE <<>>)
                /\ paths_data' = paths_data
                /\ warned' = Append(warned, <<fi, ki>>)
    /\ ki' = ki + 1
    /\ UNCHANGED <<files, pc, err, fi, forests, distributions, species,
                   nr_rows, dataset, dataset_row>>
    /\ UNCHANGED split_vars
    /\ UNCHANGED forecast_vars

\* The end of one iteration of the outer loop: the folder's paths are combined
\* and stored.  The next folder starts with paths_data = []; after the last
\* folder the next cell starts.
CombineForest ==
    /\ pc = "read"
    /\ err = "none"
    /\ ki > Len(files[fi])
    /\ LET c == combine_forest(paths_data)
       IN  IF c.raised # "none"
           THEN /\ pc' = pc
                /\ err' = c.raised
                /\ UNCHANGED <<fi, ki, paths_data, forests>>
           ELSE /\ forests' = Append(forests, c.combined)
                /\ paths_data' = IF fi < Len(files) THEN <<>> ELSE paths_data
                /\ ki' = 1
                /\ err' = err
                /\ IF fi < Len(files)
                   THEN fi' = fi + 1 /\ pc' = pc
                   ELSE fi' = 1 /\ pc' = "unknown"
    /\ UNCHANGED <<files, log, warned, distributions, species, nr_rows, dataset,
                   dataset_row>>
    /\ UNCHANGED split_vars
    /\ UNCHANGED forecast_vars

---------------------------------------------------------------------------
(* Exact rationals                                                         *)

RECURSIVE GCD(_, _)
GCD(a, b) == IF b = 0 THEN a ELSE GCD(b, a % b)

Abs(n) == IF n < 0 THEN 0 - n ELSE n

\* n / d for d > 0, in lowest terms
Rat(n, d) == LET g == GCD(Abs(n), d) IN <<n \div g, d \div g>>

\* the number n as a rational
Num(n) == <<n, 1>>

\* p + q; the common factor of the denominators is taken out before the
\* products, which keeps them small
RatAdd(p, q) ==
    LET g == GCD(p[2], q[2]) IN
    Rat(p[1] * (q[2] \div g) + q[1] * (p[2] \div g), p[2] * (q[2] \div g))

\* p * q, with the common factors taken out before the products
RatMul(p, q) ==
    LET g1 == GCD(Abs(p[1]), q[2])
        g2 == GCD(Abs(q[1]), p[2])
    IN  Rat((p[1] \div g1) * (q[1] \div g2), (p[2] \div g2) * (q[2] \div g1))

RECURSIVE RatSum(_)
RatSum(s) == IF s = <<>> THEN Num(0) ELSE RatAdd(Head(s), RatSum(Tail(s)))

---------------------------------------------------------------------------
(* Aggregating unknown species                                             *)

\* species.startswith('faj') or 'ismeretlen' in species, species the
\* lower-cased header cell
is_unknown(cell) ==
    LET sp == Lower(cell)
    IN  StartsWith(sp, FAJ) \/ Contains(sp, ISMERETLEN)

\* unknown_cols: the three columns of every unknown species, in column order
unknown_cols(data) ==
    Flatten([i1 \in 1..(Len(data.header) \div 3) |->
        IF is_unknown(Cell(data.header, (i1 - 1) * 3))
        THEN <<(i1 - 1) * 3, (i1 - 1) * 3 + 1, (i1 - 1) * 3 + 2>>
        ELSE <<>>])

\* Mutant: of the all shoots columns (m = 0) only the first unknown species'.
unknown_sum_first_shoots(data, i, m) ==
    LET columns == SelectSeq(unknown_cols(data), LAMBDA col : col % 3 = m)
    IN  NpSum([n \in 1..Len(columns) |->
                  IF m = 0 /\ n > 1 THEN 0 ELSE Cell(data.rows[i], columns[n])])

\* np.sum(data[i, [columns]]) for the columns col of unknown_cols with col % 3 = m
unknown_sum(data, i, m) ==
    LET columns == SelectSeq(unknown_cols(data), LAMBDA col : col % 3 = m)
    IN  NpSum([n \in 1..Len(columns) |-> Cell(data.rows[i], columns[n])])

\* np.delete(data, [cols], axis=1)
np_delete(data, cols) ==
    LET kept == SelectSeq([c \in 1..Len(data.header) |-> c - 1],
                          LAMBDA c : c \notin Range(cols))
    IN  [header |-> [n \in 1..Len(kept) |-> Cell(data.header, kept[n])],
         rows   |-> [i \in 1..Len(data.rows) |->
                        [n \in 1..Len(kept) |-> Cell(data.rows[i], kept[n])]]]

\* The body of the loop of the cell, for one forest: the unknown species are
\* summed into the three columns 'Unknown ...', deleted, and the three columns
\* inserted in front.
aggregate_unknown(data) ==
    LET deleted == np_delete(data, unknown_cols(data))
    IN  [header |-> <<UNKNOWN \o ALL_SHOOTS, UNKNOWN \o FRESHLY_BROWSED,
                      UNKNOWN \o OLD_BROWSED>> \o deleted.header,
         rows   |-> [i \in 1..Len(data.rows) |->
                        <<unknown_sum(data, i, 0), unknown_sum(data, i, 1),
                          unknown_sum(data, i, 2)>> \o deleted.rows[i]]]

\* One iteration of the loop over forests.items().  data[0, i*3].lower() on a
\* header cell that is the number 0 is an AttributeError.
AggregateUnknown ==
    /\ pc = "unknown"
    /\ err = "none"
    /\ LET data == forests[fi]
       IN  IF \E i1 \in 1..(Len(data.header) \div 3) :
                  ~IsStr(Cell(data.header, (i1 - 1) * 3))
           THEN /\ pc' = pc
                /\ err' = "AttributeError"
                /\ UNCHANGED <<fi, forests>>
           ELSE /\ forests' = [forests EXCEPT ![fi] = aggregate_unknown(data)]
                /\ err' = err
                /\ IF fi < Len(forests)
                   THEN fi' = fi + 1 /\ pc' = pc
                   ELSE fi' = 1 /\ pc' = "distributions"
    /\ UNCHANGED <<files, ki, paths_data, log, warned, distributions, species,
                   nr_rows, dataset, dataset_row>>
    /\ UNCHANGED split_vars
    /\ UNCHANGED forecast_vars

---------------------------------------------------------------------------
(* Species distribution properties                                         *)

\* species = unique_species[np.argsort(indices)] over the species parts of
\* all header cells
distribution_species(data) ==
    UniqueByFirstIndex([c \in 1..Len(data.header) |-> SpeciesOf(data.header[c])])

\* distributions[forest][1, j] after the loop: the rows with offered_shoots != 0
coverage_count(data, j) ==
    Cardinality({i \in 1..Len(data.rows) : Cell(data.rows[i], j * 3) # 0})

\* distributions[forest][2, j] after the loop
supply_sum(data, j) ==
    NpSum([i \in 1..Len(data.rows) |->
              IF Cell(data.rows[i], j * 3) # 0 THEN Cell(data.rows[i], j * 3) ELSE 0])

\* Mutant: the shoots of the first species (Unknown) left out of the total.
forest_all_shoots_known(data) ==
    NpSum([j1 \in 1..(Len(distribution_species(data)) - 1) |-> supply_sum(data, j1)])

\* all_shoots after the loop
forest_all_shoots(data) ==
    NpSum([j1 \in 1..Len(distribution_species(data)) |-> supply_sum(data, j1 - 1)])

\* Mutant: divided by len(data), the header row counted as a sampling point.
coverages_with_header(data) ==
    [j1 \in 1..Len(distribution_species(data)) |->
        Rat(coverage_count(data, j1 - 1), Len(data.rows) + 1)]

\* coverages = distributions[forest][1, :] / sampling_points
coverages(data) ==
    [j1 \in 1..Len(distribution_species(data)) |->
        Rat(coverage_count(data, j1 - 1), Len(data.rows))]

\* supplyPerces = distributions[forest][2, :] / all_shoots
supplyPerces(data) ==
    [j1 \in 1..Len(distribution_species(data)) |->
        Rat(supply_sum(data, j1 - 1), forest_all_shoots(data))]

\* One iteration of the loop over forests.items().  The arrays hold Python
\* objects, so a division by the integer 0 raises ZeroDivisionError; the
\* forest's entry then keeps the counts the loop accumulated.
Distributions ==
    /\ pc = "distributions"
    /\ err = "none"
    /\ LET data == forests[fi]
           nrs  == Len(distribution_species(data))
       IN  IF Len(data.rows) = 0 \/ forest_all_shoots(data) = 0
           THEN /\ pc' = pc
                /\ err' = "ZeroDivisionError"
                /\ distributions' = Append(distributions,
                       [species  |-> distribution_species(data),
                        coverage |-> [j1 \in 1..nrs |-> Num(coverage_count(data, j1 - 1))],
                        supply   |-> [j1 \in 1..nrs |-> Num(supply_sum(data, j1 - 1))]])
                /\ fi' = fi
           ELSE /\ distributions' = Append(distributions,
                       [species  |-> distribution_species(data),
                        coverage |-> coverages(data),
                        supply   |-> supplyPerces(data)])
                /\ err' = err
                /\ IF fi < Len(forests)
                   THEN fi' = fi + 1 /\ pc' = pc
                   ELSE fi' = 1 /\ pc' = "add_distributions"
    /\ UNCHANGED <<files, ki, paths_data, log, warned, forests, species, nr_rows,
                   dataset, dataset_row>>
    /\ UNCHANGED split_vars
    /\ UNCHANGED forecast_vars

---------------------------------------------------------------------------
(* Adding distribution properties to the forest data                       *)

\* np.insert(data, [index], column, axis=1), the column being the header cell
\* on top of one value tiled over all rows
np_insert(data, index, cell, value) ==
    [header |-> Slice(data.header, 0, index) \o <<cell>> \o
                Slice(data.header, index, Len(data.header)),
     rows   |-> [i \in 1..Len(data.rows) |->
                    Slice(data.rows[i], 0, index) \o <<value>> \o
                    Slice(data.rows[i], index, Len(data.rows[i]))]]

\* updated_data after the iterations i = 0 .. n-1 of the loop over the species
RECURSIVE insert_distributions(_, _, _)
insert_distributions(data, dist, n) ==
    IF n = 0 THEN data
    ELSE LET i == n - 1
             sofar == insert_distributions(data, dist, n - 1)
             withCoverage ==
                 np_insert(sofar, i * 3 + 3 + i * 2,
                           dist.species[n] \o FOREST_COVERAGE, dist.coverage[n])
         IN  np_insert(withCoverage, i * 3 + 4 + i * 2,
                       dist.species[n] \o SUPPLY_PERCENTAGE, dist.supply[n])

\* The counts of the forest array as rationals, the values the inserted
\* columns have.
as_numbers(data) ==
    [header |-> data.header,
     rows   |-> [i \in 1..Len(data.rows) |->
                    [c \in 1..Len(data.rows[i]) |-> Num(data.rows[i][c])]]]

\* One iteration of the loop over forests.items()
AddDistributions ==
    /\ pc = "add_distributions"
    /\ err = "none"
    /\ forests' = [forests EXCEPT ![fi] =
           insert_distributions(as_numbers(forests[fi]), distributions[fi],
                                Len(distributions[fi].species))]
    /\ IF fi < Len(forests)
       THEN fi' = fi + 1 /\ pc' = pc
       ELSE fi' = 1 /\ pc' = "unique_species"
    /\ UNCHANGED <<files, err, ki, paths_data, log, warned, distributions, species,
                   nr_rows, dataset, dataset_row>>
    /\ UNCHANGED split_vars
    /\ UNCHANGED forecast_vars

---------------------------------------------------------------------------
(* Combining forest data                                                   *)

\* The species of one forest: the species part of every fifth header cell
forest_species(data) ==
    [i1 \in 1..(Len(data.header) \div 5) |-> SpeciesOf(Cell(data.header, (i1 - 1) * 5))]

\* species after the loop: the forests' species, concatenated in forest order
all_species(fs) == Flatten([f \in 1..Len(fs) |-> forest_species(fs[f])])

\* Mutant: the distinct species ordered by their last occurrence.
unique_species_last(fs) ==
    LET all == all_species(fs)
        rev == UniqueByFirstIndex([n \in 1..Len(all) |-> all[Len(all) + 1 - n]])
    IN  [n \in 1..Len(rev) |-> rev[Len(rev) + 1 - n]]

\* species = unique_species[np.argsort(indices)]
unique_species(fs) == UniqueByFirstIndex(all_species(fs))

\* The cell "Determining total number of species in all regions"
UniqueSpecies ==
    /\ pc = "unique_species"
    /\ err = "none"
    /\ species' = unique_species(forests)
    /\ pc' = "count_rows"
    /\ UNCHANGED <<files, err, fi, ki, paths_data, log, warned, forests,
                   distributions, nr_rows, dataset, dataset_row>>
    /\ UNCHANGED split_vars
    /\ UNCHANGED forecast_vars

\* Mutant: np.shape(data)[0], the header rows counted.
count_rows_with_header(fs) == NpSum([f \in 1..Len(fs) |-> Len(fs[f].rows) + 1])

\* nr_rows += np.shape(data)[0] - 1, over forests.values()
count_rows(fs) == NpSum([f \in 1..Len(fs) |-> (Len(fs[f].rows) + 1) - 1])

CountRows ==
    /\ pc = "count_rows"
    /\ err = "none"
    /\ nr_rows' = count_rows(forests)
    /\ pc' = "init_dataset"
    /\ UNCHANGED <<files, err, fi, ki, paths_data, log, warned, forests,
                   distributions, species, dataset, dataset_row>>
    /\ UNCHANGED split_vars
    /\ UNCHANGED forecast_vars

\* dataset = np.zeros((nr_rows + 1, nr_species * 5)) with the header row filled
init_dataset(sps, rows) ==
    [header |-> Flatten([i1 \in 1..Len(sps) |->
                    <<sps[i1] \o ALL_SHOOTS, sps[i1] \o FRESHLY_BROWSED,
                      sps[i1] \o OLD_BROWSED, sps[i1] \o FOREST_COVERAGE,
                      sps[i1] \o SUPPLY_PERCENTAGE>>]),
     rows   |-> [r \in 1..rows |-> [c \in 1..(Len(sps) * 5) |-> Num(0)]]]

InitDataset ==
    /\ pc = "init_dataset"
    /\ err = "none"
    /\ dataset' = init_dataset(species, nr_rows)
    /\ dataset_row' = 1
    /\ pc' = "merge"
    /\ fi' = 1
    /\ UNCHANGED <<files, err, ki, paths_data, log, warned, forests,
                   distributions, species, nr_rows>>
    /\ UNCHANGED split_vars
    /\ UNCHANGED forecast_vars

\* Mutant: the columns holding the same feature, of whatever species.
where_header_feature(ds, header) ==
    SelectSeq([c \in 1..Len(ds.header) |-> c - 1],
              LAMBDA c : FeatureOf(Cell(ds.header, c)) = FeatureOf(header))

\* np.where(dataset[0] == header)[0]: the columns (0-based) with that header
where_header(ds, header) ==
    SelectSeq([c \in 1..Len(ds.header) |-> c - 1],
              LAMBDA c : Cell(ds.header, c) = header)

\* Row i of data written into the dataset row: every cell goes to the first
\* column of the dataset with the same header; the last write to a column wins.
merged_row(ds, data, i) ==
    [c \in 1..Len(ds.header) |->
        LET from == {j \in 0..(Len(data.header) - 1) :
                        where_header(ds, Cell(data.header, j))[1] = c - 1}
        IN  IF from = {} THEN Num(0)
            ELSE Cell(data.rows[i], CHOOSE j \in from : \A k \in from : k <= j)]

\* One iteration of the loop over forests.items().  [0][0] of an empty
\* np.where result is an IndexError.
MergeForest ==
    /\ pc = "merge"
    /\ err = "none"
    /\ LET data == forests[fi]
       IN  IF \E j \in 0..(Len(data.header) - 1) :
                  Len(data.rows) > 0 /\ where_header(dataset, Cell(data.header, j)) = <<>>
           THEN /\ pc' = pc
                /\ err' = "IndexError"
                /\ UNCHANGED <<fi, dataset, dataset_row>>
           ELSE /\ dataset' = [dataset EXCEPT !.rows =
                       [r \in 1..Len(dataset.rows) |->
                           IF r >= dataset_row /\ r < dataset_row + Len(data.rows)
                           THEN merged_row(dataset, data, r - dataset_row + 1)
                           ELSE dataset.rows[r]]]
                /\ dataset_row' = dataset_row + Len(data.rows)
                /\ err' = err
                /\ IF fi < Len(forests)
                   THEN fi' = fi + 1 /\ pc' = pc
                   ELSE fi' = 1 /\ pc' = "normalize"
    /\ UNCHANGED <<files, ki, paths_data, log, warned, forests, distributions,
                   species, nr_rows>>
    /\ UNCHANGED split_vars
    /\ UNCHANGED forecast_vars

---------------------------------------------------------------------------
(* Normalizing freshly browsed shoots                                      *)

\* p / q for q # 0
RatDiv(p, q) ==
    IF q[1] > 0 THEN RatMul(p, <<q[2], q[1]>>)
    ELSE RatMul(p, <<0 - q[2], 0 - q[1]>>)

\* p < q
RatLess(p, q) ==
    LET g == GCD(p[2], q[2]) IN p[1] * (q[2] \div g) < q[1] * (p[2] \div g)

\* 'freshly browsed' in header
is_freshly_browsed(header) == Contains(header, Tail(FRESHLY_BROWSED))

\* Mutant: the smoothed quotient count / (all_offered + 1).
normalized_smoothed(all_offered, count) == RatDiv(count, RatAdd(all_offered, Num(1)))

\* dataset[i, j] after the body of the inner loop, from all_offered =
\* dataset[i, j-1] and the count dataset[i, j]
normalized(all_offered, count) ==
    IF all_offered # Num(0) THEN RatDiv(count, all_offered)
    ELSE IF count # Num(0) THEN Num(0)
    ELSE count

\* The dataset after the loops.  Column j-1 of a freshly browsed column is
\* an all shoots column, which the loops do not write, so every cell is
\* computed from the values before the cell ran.  (For j = 0 Python's j-1
\* is the last column.)
normalize(ds) ==
    [header |-> ds.header,
     rows   |-> [i \in 1..Len(ds.rows) |->
                    [c \in 1..Len(ds.header) |->
                        IF is_freshly_browsed(ds.header[c])
                        THEN normalized(ds.rows[i][IF c = 1 THEN Len(ds.header) ELSE c - 1],
                                        ds.rows[i][c])
                        ELSE ds.rows[i][c]]]]

Normalize ==
    /\ pc = "normalize"
    /\ err = "none"
    /\ dataset' = normalize(dataset)
    /\ pc' = "remove_old"
    /\ UNCHANGED <<files, err, fi, ki, paths_data, log, warned, forests, distributions,
                   species, nr_rows, dataset_row, split_vars>>
    /\ UNCHANGED forecast_vars

---------------------------------------------------------------------------
(* Removing old browsed shoots                                             *)

\* old_browsed_cols
old_browsed_cols(ds) ==
    SelectSeq([c \in 1..Len(ds.header) |-> c - 1],
              LAMBDA c : Contains(Cell(ds.header, c), Tail(OLD_BROWSED)))

RemoveOldBrowsed ==
    /\ pc = "remove_old"
    /\ err = "none"
    /\ dataset' = np_delete(dataset, old_browsed_cols(dataset))
    /\ pc' = "rename"
    /\ UNCHANGED <<files, err, fi, ki, paths_data, log, warned, forests, distributions,
                   species, nr_rows, dataset_row, split_vars>>
    /\ UNCHANGED forecast_vars

---------------------------------------------------------------------------
(* Changing Hungarian to Latin names                                       *)

SAMBUCUS_NIGRA == <<"S", "a", "m", "b", "u", "c", "u", "s", " ", "n", "i", "g", "r", "a">>

\* The value has a trailing space in the source.
ULMUS_MINOR == <<"U", "l", "m", "u", "s", " ", "m", "i", "n", "o", "r", " ">>

\* names_dict, restricted to the species that occur in the sheets above
names_dict ==
    [name \in {NameBodza, NameMezeiSzil} |->
        IF name = NameBodza THEN SAMBUCUS_NIGRA ELSE ULMUS_MINOR]

\* The header cell after the body of the loop, when the lookup succeeds
renamed(cell) ==
    IF SpeciesOf(cell) # UNKNOWN
    THEN names_dict[SpeciesOf(cell)] \o <<" ">> \o FeatureOf(cell)
    ELSE cell

\* The columns (0-based) at which names_dict[species] raises KeyError
missing_names(header) ==
    {j \in 0..(Len(header) - 1) :
        /\ SpeciesOf(Cell(header, j)) # UNKNOWN
        /\ SpeciesOf(Cell(header, j)) \notin DOMAIN names_dict}

\* The header after the loop has renamed the columns before column upto
rename_before(header, upto) ==
    [c \in 1..Len(header) |-> IF c - 1 < upto THEN renamed(header[c]) ELSE header[c]]

\* The loop over the columns.  The header is renamed in place, so a KeyError
\* leaves the columns before it renamed.
Rename ==
    /\ pc = "rename"
    /\ err = "none"
    /\ LET missing == missing_names(dataset.header)
       IN  IF missing # {}
           THEN /\ dataset' = [dataset EXCEPT !.header =
                       rename_before(dataset.header,
                                     CHOOSE j \in missing : \A k \in missing : j <= k)]
                /\ err' = "KeyError"
                /\ pc' = pc
           ELSE /\ dataset' = [dataset EXCEPT !.header =
                       rename_before(dataset.header, Len(dataset.header))]
                /\ err' = err
                /\ pc' = "save_dataset"
    /\ UNCHANGED <<files, fi, ki, paths_data, log, warned, forests, distributions,
                   species, nr_rows, dataset_row, split_vars>>
    /\ UNCHANGED forecast_vars

\* np.savetxt('./Data/dataset_raw.csv', dataset, ...)
SaveDataset ==
    /\ pc = "save_dataset"
    /\ err = "none"
    /\ saved' = Append(saved, "dataset_raw.csv")
    /\ pc' = "target"
    /\ UNCHANGED <<files, err, fi, ki, paths_data, log, warned, forests, distributions,
                   species, nr_rows, dataset, dataset_row, target_values,
                   target_values_distinguished, predictor_values>>
    /\ UNCHANGED forecast_vars

---------------------------------------------------------------------------
(* Saving predictor and target values                                      *)

\* dataset[:, columns], the header row included
take_columns(ds, columns) ==
    [header |-> [n \in 1..Len(columns) |-> Cell(ds.header, columns[n])],
     rows   |-> [i \in 1..Len(ds.rows) |->
                    [n \in 1..Len(columns) |-> Cell(ds.rows[i], columns[n])]]]

\* target_columns
target_columns(ds) ==
    SelectSeq([c \in 1..Len(ds.header) |-> c - 1],
              LAMBDA c : is_freshly_browsed(Cell(ds.header, c)))

\* predictor_columns
predictor_columns(ds) ==
    SelectSeq([c \in 1..Len(ds.header) |-> c - 1],
              LAMBDA c : ~is_freshly_browsed(Cell(ds.header, c)))

SplitTarget ==
    /\ pc = "target"
    /\ err = "none"
    /\ target_values' = take_columns(dataset, target_columns(dataset))
    /\ pc' = "save_target"
    /\ UNCHANGED <<files, err, fi, ki, paths_data, log, warned, forests, distributions,
                   species, nr_rows, dataset, dataset_row,
                   target_values_distinguished, predictor_values, saved>>
    /\ UNCHANGED forecast_vars

\* np.savetxt('./Data/freshly_browsed_raw.csv', target_values, ...)
SaveTarget ==
    /\ pc = "save_target"
    /\ err = "none"
    /\ saved' = Append(saved, "freshly_browsed_raw.csv")
    /\ pc' = "distinguish"
    /\ UNCHANGED <<files, err, fi, ki, paths_data, log, warned, forests, distributions,
                   species, nr_rows, dataset, dataset_row, target_values,
                   target_values_distinguished, predictor_values>>
    /\ UNCHANGED forecast_vars

\* noSupply_value = -0.00001
noSupply_value == <<0 - 1, 100000>>

\* Mutant: the all shoots column taken at j*5, as if old browsed were kept.
supply_column_of_five(j) == j * 5

\* The dataset column (0-based) read for target column j: j*4
supply_column(j) == j * 4

\* target_values_distinguished after the loops.  Row 0 is the header row:
\* dataset[0, j*4] is a string and never equals 0.
distinguish(ds, target) ==
    [header |-> target.header,
     rows   |-> [i \in 1..Len(target.rows) |->
                    [j1 \in 1..Len(target.header) |->
                        IF Cell(ds.rows[i], supply_column(j1 - 1)) = Num(0)
                        THEN noSupply_value
                        ELSE target.rows[i][j1]]]]

DistinguishTarget ==
    /\ pc = "distinguish"
    /\ err = "none"
    /\ target_values_distinguished' = distinguish(dataset, target_values)
    /\ pc' = "save_distinguished"
    /\ UNCHANGED <<files, err, fi, ki, paths_data, log, warned, forests, distributions,
                   species, nr_rows, dataset, dataset_row, target_values,
                   predictor_values, saved>>
    /\ UNCHANGED forecast_vars

\* np.savetxt('./Data/freshly_browsed_dist_raw.csv', ...)
SaveDistinguished ==
    /\ pc = "save_distinguished"
    /\ err = "none"
    /\ saved' = Append(saved, "freshly_browsed_dist_raw.csv")
    /\ pc' = "predictors"
    /\ UNCHANGED <<files, err, fi, ki, paths_data, log, warned, forests, distributions,
                   species, nr_rows, dataset, dataset_row, target_values,
                   target_values_distinguished, predictor_values>>
    /\ UNCHANGED forecast_vars

SplitPredictors ==
    /\ pc = "predictors"
    /\ err = "none"
    /\ predictor_values' = take_columns(dataset, predictor_columns(dataset))
    /\ pc' = "save_predictors"
    /\ UNCHANGED <<files, err, fi, ki, paths_data, log, warned, forests, distributions,
                   species, nr_rows, dataset, dataset_row, target_values,
                   target_values_distinguished, saved>>
    /\ UNCHANGED forecast_vars

\* np.savetxt('./Data/predictors_raw.csv', predictor_values, ...)
SavePredictors ==
    /\ pc = "save_predictors"
    /\ err = "none"
    /\ saved' = Append(saved, "predictors_raw.csv")
    /\ pc' = "done"
    /\ UNCHANGED <<files, err, fi, ki, paths_data, log, warned, forests, distributions,
                   species, nr_rows, dataset, dataset_row, target_values,
                   target_values_distinguished, predictor_values>>
    /\ UNCHANGED forecast_vars

---------------------------------------------------------------------------
(* Specifications                                                          *)

InitWith(inputs) ==
    /\ files \in inputs
    /\ pc = "read"
    /\ err = "none"
    /\ fi = 1
    /\ ki = 1
    /\ paths_data = <<>>
    /\ log = <<>>
    /\ warned = <<>>
    /\ forests = <<>>
    /\ distributions = <<>>
    /\ species = <<>>
    /\ nr_rows = 0
    /\ dataset = [header |-> <<>>, rows |-> <<>>]
    /\ dataset_row = 1
    /\ target_values = [header |-> <<>>, rows |-> <<>>]
    /\ target_values_distinguished = [header |-> <<>>, rows |-> <<>>]
    /\ predictor_values = [header |-> <<>>, rows |-> <<>>]
    /\ saved = <<>>
    /\ forest_data = [columns |-> <<>>, rows |-> <<>>, models |-> 0]
    /\ ts_values = <<>>
    /\ properties_table = [F |-> <<>>, RPS |-> <<>>]
    /\ unaggregated_data = <<>>
    /\ section_data = <<>>
    /\ models = <<>>
    /\ section_estimates = <<>>
    /\ forest_estimates = <<>>
    /\ printed = <<>>
    /\ output = <<>>

Next ==
    \/ ReadFile
    \/ CombineForest
    \/ AggregateUnknown
    \/ Distributions
    \/ AddDistributions
    \/ UniqueSpecies
    \/ CountRows
    \/ InitDataset
    \/ MergeForest
    \/ Normalize
    \/ RemoveOldBrowsed
    \/ Rename
    \/ SaveDataset
    \/ SplitTarget
    \/ SaveTarget
    \/ DistinguishTarget
    \/ SaveDistinguished
    \/ SplitPredictors
    \/ SavePredictors

\* All sequences over a set with lengths from..upto
SeqsOf(set, from, upto) == UNION {[1..n -> set] : n \in from..upto}

AggSpecies == 3

AggPoints == 2

\* One forest of one path, with rich counts: the domain of aggregate_data.
AggregateInputs ==
    {<< <<f>> >> :
        f \in SheetFiles({NameBodza, NameMezeiSzil}, AggSpecies, AggPoints,
                         {BlockOver, BlockUnder, BlockEqual})}

InitAggregate == InitWith(AggregateInputs)

SpecAggregate == InitAggregate /\ [][Next]_vars

ForestSpecies == 2

ForestPoints == 1

ForestPaths == 2

\* One forest folder of up to ForestPaths files, readable or not, with known
\* and unknown species and with empty blocks: the domain of the per-forest
\* steps.
ForestInputs ==
    {<<fs>> :
        fs \in SeqsOf(SheetFiles({NameFaj, NameIsmeretlen, NameBodza}, ForestSpecies,
                                 ForestPoints, {BlockNone, BlockOver, BlockUnder})
                      \cup {UnreadableFile}, 0, ForestPaths)}

InitForest == InitWith(ForestInputs)

SpecForest == InitForest /\ [][Next]_vars

MaxForests == 2

MergeSpecies == 2

MergePoints == 1

MergePaths == 2

\* The files of the forests of several paths: sheets of any number of species
\* with the same counts everywhere, and sheets of one species with other
\* counts, so that the sampling points of one forest differ.
MergePathFiles ==
    SheetFiles({NameBodza, NameMezeiSzil}, MergeSpecies, MergePoints, {BlockUnder})
    \cup {f \in SheetFiles({NameBodza, NameMezeiSzil}, MergeSpecies, MergePoints,
                           {BlockOver}) : Len(f.names) = 1}

\* The forests of the cross-forest steps: forests of one path whose species
\* sets differ in content and order, and forests of several paths, so that
\* forests differ in their number of sampling points.
MergeForests ==
    {<<f>> : f \in SheetFiles({NameFaj, NameBodza, NameMezeiSzil}, MergeSpecies,
                              MergePoints, {BlockUnbrowsed, BlockUnder})}
    \cup SeqsOf(MergePathFiles, 2, MergePaths)

\* Up to MaxForests forests
MergeInputs == SeqsOf(MergeForests, 1, MaxForests)

Init == InitWith(MergeInputs)

Spec == Init /\ [][Next]_vars

RenameForests == 2

RenameSpecies == 2

RenamePoints == 1

\* Up to RenameForests forests of one path, with species that names_dict
\* knows, does not know, or that are collapsed into Unknown: the domain of the
\* rename cell.
RenameInputs ==
    SeqsOf({<<f>> : f \in SheetFiles({NameFaj, NameBodza, NameSom}, RenameSpecies,
                                     RenamePoints, {BlockUnder})},
           1, RenameForests)

InitRename == InitWith(RenameInputs)

SpecRename == InitRename /\ [][Next]_vars

---------------------------------------------------------------------------
(***************************************************************************)
(* The forecast notebook (src/Pipeline/Browsing_forecast.ipynb).           *)
(*                                                                         *)
(* It is a linear script as well, with no try/except at all.  Its input is *)
(* the table forest_data.xlsx (one column per species, one row per         *)
(* sampling point, the total shoots counted) and the model files of the    *)
(* folder Models.  A table is the sequence of its rows, each row the       *)
(* sequence of its cells; a table of three columns per species has TS, F   *)
(* and RPS of species j (0-based) at the Python columns 3j, 3j+1, 3j+2.    *)
(***************************************************************************)

(* Loading the dataset                                                     *)

\* loaded_dataset.values and loaded_dataset.columns.values
LoadDataset ==
    /\ pc = "load_dataset"
    /\ err = "none"
    /\ ts_values' = forest_data.rows
    /\ species' = forest_data.columns
    /\ pc' = "properties"
    /\ UNCHANGED <<err, forest_data, properties_table, unaggregated_data, section_data,
                   models, section_estimates, forest_estimates, printed, output>>
    /\ UNCHANGED preparation_vars

(* F and RPS of every species                                              *)

\* len(ts_values)
sampling_points(ts) == Len(ts)

\* The rows `for i in range(1,len(ts_values))` visits, as 1-based indices
properties_rows(ts) == [k \in 1..(Len(ts) - 1) |-> k + 1]

\* properties_table[1,j] after the loop: the visited rows where species j
\* (0-based) has shoots
properties_count(ts, j) ==
    NpSum([k \in 1..Len(properties_rows(ts)) |->
              IF ts[properties_rows(ts)[k]][j + 1] # 0 THEN 1 ELSE 0])

\* properties_table[2,j] after the loop: the shoots of species j in the
\* visited rows
properties_shoots(ts, j) ==
    NpSum([k \in 1..Len(properties_rows(ts)) |-> ts[properties_rows(ts)[k]][j + 1]])

\* all_shoots after the loop
properties_all_shoots(ts) ==
    NpSum([j1 \in 1..Len(ts[1]) |-> properties_shoots(ts, j1 - 1)])

\* properties_table[1, :] / sampling_points
properties_F(ts, nr_species) ==
    [j1 \in 1..nr_species |-> Rat(properties_count(ts, j1 - 1), sampling_points(ts))]

\* properties_table[2, :] / all_shoots
properties_RPS(ts, nr_species) ==
    [j1 \in 1..nr_species |-> Rat(properties_shoots(ts, j1 - 1), properties_all_shoots(ts))]

\* The cell.  all_shoots starts as the Python int 0 and the table holds Python
\* floats, so a division by a zero count raises ZeroDivisionError: on line 221
\* for a table without rows, on line 222 (F already divided) when no visited
\* row has a shoot.
Properties ==
    /\ pc = "properties"
    /\ err = "none"
    /\ LET nr_species == Len(species) IN
       IF sampling_points(ts_values) = 0
       THEN /\ err' = "ZeroDivisionError"
            /\ properties_table' = [F   |-> [j1 \in 1..nr_species |-> Num(0)],
                                    RPS |-> [j1 \in 1..nr_species |-> Num(0)]]
            /\ pc' = pc
       ELSE IF properties_all_shoots(ts_values) = 0
       THEN /\ err' = "ZeroDivisionError"
            /\ properties_table' = [F   |-> properties_F(ts_values, nr_species),
                                    RPS |-> [j1 \in 1..nr_species |-> Num(0)]]
            /\ pc' = pc
       ELSE /\ err' = err
            /\ properties_table' = [F   |-> properties_F(ts_values, nr_species),
                                    RPS |-> properties_RPS(ts_values, nr_species)]
            /\ pc' = "unaggregated"
    /\ UNCHANGED <<species, forest_data, ts_values, unaggregated_data, section_data,
                   models, section_estimates, forest_estimates, printed, output>>
    /\ UNCHANGED preparation_vars

(* TS, F and RPS per sampling point                                        *)

\* The table unaggregated_data
unaggregated(ts, table, nr_species) ==
    [i1 \in 1..Len(ts) |->
        [c1 \in 1..(nr_species * 3) |->
            LET j1 == ((c1 - 1) \div 3) + 1 IN
            IF (c1 - 1) % 3 = 0 THEN Num(ts[i1][j1])
            ELSE IF (c1 - 1) % 3 = 1 THEN table.F[j1]
            ELSE table.RPS[j1]]]

UnaggregatedData ==
    /\ pc = "unaggregated"
    /\ err = "none"
    /\ unaggregated_data' = unaggregated(ts_values, properties_table, Len(species))
    /\ pc' = "sections"
    /\ UNCHANGED <<err, species, forest_data, ts_values, properties_table, section_data,
                   models, section_estimates, forest_estimates, printed, output>>
    /\ UNCHANGED preparation_vars

(* Sections of 5 adjacent sampling points                                  *)

\* The number of sampling points of a section
SECTION_POINTS == 5

\* len(data): unaggregated_data.shape[0] // 5
nr_sections(unagg) == Len(unagg) \div SECTION_POINTS

\* start_index of section i (0-based): a Python row index
start_index(i) == i * SECTION_POINTS

end_index_short(start) == start + 3

\* end_index, for the start_index of the section
end_index(start) == start + 4

\* np.sum(unaggregated_data[start_index:end_index+1, c]) for the Python
\* column c; a slice stops at the end of the table
section_sum(unagg, start, c) ==
    RatSum([k \in 1..(end_index(start) + 1 - start) |-> unagg[start + k][c + 1]])

\* The table data before its normalisation
aggregate_sections(unagg, nr_species) ==
    [i1 \in 1..nr_sections(unagg) |->
        [c1 \in 1..(nr_species * 3) |->
            IF (c1 - 1) % 3 = 0
            THEN section_sum(unagg, start_index(i1 - 1), c1 - 1)
            ELSE unagg[start_index(i1 - 1) + 1][c1]]]

Sections ==
    /\ pc = "sections"
    /\ err = "none"
    /\ section_data' = aggregate_sections(unaggregated_data, Len(species))
    /\ pc' = "normalize_TS"
    /\ UNCHANGED <<err, species, forest_data, ts_values, properties_table,
                   unaggregated_data, models, section_estimates, forest_estimates,
                   printed, output>>
    /\ UNCHANGED preparation_vars

(* normalize_TS                                                            *)

\* cols_to_normalize: the Python columns i with i % 3 == 0
cols_to_normalize(X) == {c \in 0..(Len(X[1]) - 1) : c % 3 = 0}

\* smoothing = 0.00001
smoothing == <<1, 100000>>

\* p - q
RatSub(p, q) == RatAdd(p, <<0 - q[1], q[2]>>)

\* X[:, c].min(axis=0) and X[:, c].max(axis=0) for the Python column c
column_min(X, c) ==
    LET col == {X[i1][c + 1] : i1 \in 1..Len(X)} IN
    CHOOSE m \in col : \A x \in col : ~RatLess(x, m)

column_max(X, c) ==
    LET col == {X[i1][c + 1] : i1 \in 1..Len(X)} IN
    CHOOSE m \in col : \A x \in col : ~RatLess(m, x)

\* One normalized cell: (X - min) / (max - min + smoothing)
min_max(X, i, c) ==
    RatDiv(RatSub(X[i + 1][c + 1], column_min(X, c)),
           RatAdd(RatSub(column_max(X, c), column_min(X, c)), smoothing))

\* normalize_TS(X) for an array with rows
normalize_TS(X) ==
    [i1 \in 1..Len(X) |->
        [c1 \in 1..Len(X[i1]) |->
            IF (c1 - 1) \in cols_to_normalize(X) THEN min_max(X, i1 - 1, c1 - 1)
            ELSE X[i1][c1]]]

\* data = normalize_TS(data).  The minimum of a column without rows raises
\* ValueError (zero-size array to reduction operation).
NormalizeTS ==
    /\ pc = "normalize_TS"
    /\ err = "none"
    /\ IF section_data = <<>>
       THEN /\ err' = "ValueError"
            /\ UNCHANGED <<pc, section_data>>
       ELSE /\ section_data' = normalize_TS(section_data)
            /\ pc' = "load_models"
            /\ err' = err
    /\ UNCHANGED <<species, forest_data, ts_values, properties_table,
                   unaggregated_data, models, section_estimates, forest_estimates,
                   printed, output>>
    /\ UNCHANGED preparation_vars

(* Loading the models                                                      *)

\* The values a model can predict for a section
Predictions == {<<0 - 1, 10>>, <<1, 2>>}

\* A loaded model is the function predict: one value per row of X, the same
\* value for equal rows
Models(X) ==
    {m \in [1..Len(X) -> Predictions] :
        \A s1, s2 \in 1..Len(X) : X[s1] = X[s2] => m[s1] = m[s2]}

\* joblib.load of gb_0.pkl .. gb_{nr_species-1}.pkl: FileNotFoundError at the
\* first file the folder Models does not hold
LoadModels ==
    /\ pc = "load_models"
    /\ err = "none"
    /\ LET nr_species == Len(species) IN
       IF nr_species > forest_data.models
       THEN /\ err' = "FileNotFoundError"
            /\ models' \in [1..forest_data.models -> Models(section_data)]
            /\ pc' = pc
       ELSE /\ err' = err
            /\ models' \in [1..nr_species -> Models(section_data)]
            /\ pc' = "section_estimates"
    /\ UNCHANGED <<species, forest_data, ts_values, properties_table,
                   unaggregated_data, section_data, section_estimates,
                   forest_estimates, printed, output>>
    /\ UNCHANGED preparation_vars

(* Estimates per section                                                   *)

\* The number of species the models were trained with: predict accepts
\* 3 * TrainedSpecies columns
TrainedSpecies == 2

\* section_estimates before adjust_predictions: column i is models[i].predict(data)
predicted_browsing(loaded, X) ==
    [s1 \in 1..Len(X) |-> [j1 \in 1..Len(loaded) |-> loaded[j1][s1]]]

\* The column of X that adjust_predictions reads for species j
adjust_column(j) == j * 3

\* Mutant: negative predictions left as they are.
adjust_predictions_unclamped(y_pred, X, noSupply) ==
    [i1 \in 1..Len(y_pred) |->
        [j1 \in 1..Len(y_pred[i1]) |->
            IF X[i1][adjust_column(j1 - 1) + 1] = Num(0) THEN noSupply
            ELSE y_pred[i1][j1]]]

\* adjust_predictions(y_pred, X, noSupply_value)
adjust_predictions(y_pred, X, noSupply) ==
    [i1 \in 1..Len(y_pred) |->
        [j1 \in 1..Len(y_pred[i1]) |->
            IF X[i1][adjust_column(j1 - 1) + 1] = Num(0) THEN noSupply
            ELSE IF RatLess(y_pred[i1][j1], Num(0)) THEN Num(0)
            ELSE y_pred[i1][j1]]]

\* The cell.  predict raises ValueError for an X with another number of
\* columns than the model was fitted with.
SectionEstimates ==
    /\ pc = "section_estimates"
    /\ err = "none"
    /\ LET nr_species == Len(species) IN
       IF nr_species # TrainedSpecies
       THEN /\ err' = "ValueError"
            /\ section_estimates' =
                   [s1 \in 1..Len(section_data) |-> [j1 \in 1..nr_species |-> Num(0)]]
            /\ pc' = pc
       ELSE /\ err' = err
            /\ section_estimates' =
                   adjust_predictions(predicted_browsing(models, section_data),
                                      section_data, noSupply_value)
            /\ pc' = "forest_estimates"
    /\ UNCHANGED <<species, forest_data, ts_values, properties_table,
                   unaggregated_data, section_data, models, forest_estimates,
                   printed, output>>
    /\ UNCHANGED preparation_vars

(* Estimates for the forest                                                *)

\* total_shoots = np.sum(data[:, sp*3])
total_shoots(X, sp) == RatSum([s1 \in 1..Len(X) |-> X[s1][sp * 3 + 1]])

\* section_contributions
section_contributions(X, sp) ==
    [s1 \in 1..Len(X) |-> RatDiv(X[s1][sp * 3 + 1], total_shoots(X, sp))]

\* weighted_estimates
weighted_estimates(X, estimates, sp) ==
    [s1 \in 1..Len(X) |-> RatMul(section_contributions(X, sp)[s1], estimates[s1][sp + 1])]

\* forest_estimates[0, sp]
forest_estimate(X, estimates, sp) ==
    IF total_shoots(X, sp) # Num(0) THEN RatSum(weighted_estimates(X, estimates, sp))
    ELSE noSupply_value

ForestEstimates ==
    /\ pc = "forest_estimates"
    /\ err = "none"
    /\ forest_estimates' =
           [j1 \in 1..Len(species) |-> forest_estimate(section_data, section_estimates, j1 - 1)]
    /\ pc' = "print_results"
    /\ UNCHANGED <<err, species, forest_data, ts_values, properties_table,
                   unaggregated_data, section_data, models, section_estimates,
                   printed, output>>
    /\ UNCHANGED preparation_vars

(* Results                                                                 *)

\* np.sum(ts_values[:, index])
species_total_shoots(ts, index) == NpSum([i1 \in 1..Len(ts) |-> ts[i1][index + 1]])

\* One printed line: NaN for a negative forecast, else the forecast as a
\* percentage (the rounding to one decimal is not modelled)
printed_line(sp, total, forecast) ==
    [species |-> sp, total_shoots |-> total,
     nan |-> RatLess(forecast, Num(0)),
     percent |-> IF RatLess(forecast, Num(0)) THEN Num(0)
                 ELSE RatMul(forecast, Num(100))]

PrintResults ==
    /\ pc = "print_results"
    /\ err = "none"
    /\ printed' = [j1 \in 1..Len(species) |->
                      printed_line(species[j1], species_total_shoots(ts_values, j1 - 1),
                                   forest_estimates[j1])]
    /\ pc' = "save_output"
    /\ UNCHANGED <<err, species, forest_data, ts_values, properties_table,
                   unaggregated_data, section_data, models, section_estimates,
                   forest_estimates, output>>
    /\ UNCHANGED preparation_vars

\* The rows of browsing_forecast.csv below its header line
SaveOutput ==
    /\ pc = "save_output"
    /\ err = "none"
    /\ output' = [j1 \in 1..Len(species) |->
                     <<species[j1], species_total_shoots(ts_values, j1 - 1),
                       forest_estimates[j1]>>]
    /\ pc' = "forecast_done"
    /\ UNCHANGED <<err, species, forest_data, ts_values, properties_table,
                   unaggregated_data, section_data, models, section_estimates,
                   forest_estimates, printed>>
    /\ UNCHANGED preparation_vars

(* The forecast notebook as a specification                                *)

MaxSections == 2

MaxSurplus == 1

MaxShoots == 1

\* The rows of a table of w columns
ForecastRows(w) == [1..w -> 0..MaxShoots]

\* Tables of whole sections: the sampling points of a section after its first
\* one are alike
SectionTables(w) ==
    UNION {[1..n -> {<<r1, r2, r2, r2, r2>> : r1, r2 \in ForecastRows(w)}] :
              n \in 1..MaxSections}

\* The tables: whole sections, then up to MaxSurplus further rows
ForecastTables(w) ==
    {Flatten(t) \o surplus : t \in SectionTables(w),
                             surplus \in SeqsOf(ForecastRows(w), 0, MaxSurplus)}

\* The column labels of a table of w columns
ForecastColumns(w) == SubSeq(<<SAMBUCUS_NIGRA, ULMUS_MINOR, NameFaj>>, 1, w)

\* The inputs: a table with as many columns as the models were trained with,
\* or one fewer, and a folder Models that holds all the model files, or
\* lacks the last
ForecastInputs ==
    UNION {{[columns |-> ForecastColumns(w), rows |-> t, models |-> m] :
               t \in ForecastTables(w), m \in (TrainedSpecies - 1)..TrainedSpecies} :
           w \in (TrainedSpecies - 1)..TrainedSpecies}

InitForecast ==
    /\ forest_data \in ForecastInputs
    /\ pc = "load_dataset"
    /\ err = "none"
    /\ species = <<>>
    /\ ts_values = <<>>
    /\ properties_table = [F |-> <<>>, RPS |-> <<>>]
    /\ unaggregated_data = <<>>
    /\ section_data = <<>>
    /\ models = <<>>
    /\ section_estimates = <<>>
    /\ forest_estimates = <<>>
    /\ printed = <<>>
    /\ output = <<>>
    /\ files = <<>>
    /\ fi = 1
    /\ ki = 1
    /\ paths_data = <<>>
    /\ log = <<>>
    /\ warned = <<>>
    /\ forests = <<>>
    /\ distributions = <<>>
    /\ nr_rows = 0
    /\ dataset = [header |-> <<>>, rows |-> <<>>]
    /\ dataset_row = 1
    /\ target_values = [header |-> <<>>, rows |-> <<>>]
    /\ target_values_distinguished = [header |-> <<>>, rows |-> <<>>]
    /\ predictor_values = [header |-> <<>>, rows |-> <<>>]
    /\ saved = <<>>

NextForecast ==
    \/ LoadDataset
    \/ Properties
    \/ UnaggregatedData
    \/ Sections
    \/ NormalizeTS
    \/ LoadModels
    \/ SectionEstimates
    \/ ForestEstimates
    \/ PrintResults
    \/ SaveOutput

SpecForecast == InitForecast /\ [][NextForecast]_vars

---------------------------------------------------------------------------
(* The sheet's own counts, read off the file                               *)

\* The 9 counts of block j (0-based) at sampling point i of a sheet
SheetBlock(file, i, j) == SubSeq(file.points[i], 9 * j + 1, 9 * j + 9)

\* Offered shoots: the first four sub-columns of the block
SheetAll(file, i, j) ==
    LET b == SheetBlock(file, i, j) IN b[1] + b[2] + b[3] + b[4]

\* Freshly browsed shoots: the next four sub-columns
SheetFresh(file, i, j) ==
    LET b == SheetBlock(file, i, j) IN b[5] + b[6] + b[7] + b[8]

\* Old browsed shoots: the ninth sub-column
SheetOld(file, i, j) == SheetBlock(file, i, j)[9]

\* The files of the current folder that the reading loop has loaded so far,
\* in order: paths_data[n] is the aggregate of the n-th of them.
LoadedFiles ==
    SelectSeq([k \in 1..(ki - 1) |-> k], LAMBDA k : <<fi, k>> \notin Range(warned))

\* The aggregated triple (all shoots, freshly browsed, old browsed) of species
\* j (0-based) in data row i of an aggregated array
Triple(matrix, i, j) == SubSeq(matrix.rows[i], 3 * j + 1, 3 * j + 3)

---------------------------------------------------------------------------
(* Claims about aggregate_data                                             *)

\* C1: in every array aggregate_data has returned, every data row and every
\* species has all_shoots >= freshly_browsed (the sheets hold non-negative
\* counts).
C1_AllShootsAtLeastFresh ==
    \A n \in 1..Len(paths_data) :
        \A i \in 1..Len(paths_data[n].rows) :
            \A j \in 0..((Len(paths_data[n].header) \div 3) - 1) :
                Triple(paths_data[n], i, j)[1] >= Triple(paths_data[n], i, j)[2]

\* A sheet that records more browsed than offered shoots has been aggregated.
C1_Witness ==
    /\ pc = "read"
    /\ err = "none"
    /\ \E n \in 1..Len(paths_data) :
         LET file == files[fi][LoadedFiles[n]]
         IN  \E i \in 1..Len(file.points) : \E j \in 0..(Len(file.names) - 1) :
                /\ SheetFresh(file, i, j) > SheetAll(file, i, j)
                /\ Triple(paths_data[n], i, j)[1] >= Triple(paths_data[n], i, j)[2]

\* No block of the sheet records more browsed than offered shoots.
NoCorrection(file) ==
    \A i \in 1..Len(file.points) : \A j \in 0..(Len(file.names) - 1) :
        SheetFresh(file, i, j) <= SheetAll(file, i, j)

\* C2: aggregate_data maps a raw array of R rows and 9*S columns to an array
\* of R-2 rows and 3*S columns; where no correction applies, all_shoots is the
\* sum of the block's first four sub-columns, freshly_browsed the sum of the
\* next four and old_browsed the ninth.  A sheet without any correction is
\* always aggregated.
C2_ShapeAndSums ==
    pc = "read" =>
        /\ Len(paths_data) = Len(LoadedFiles)
        /\ \A k \in 1..(ki - 1) :
              (files[fi][k].readable /\ NoCorrection(files[fi][k]))
                  => <<fi, k>> \notin Range(warned)
        /\ \A n \in 1..Len(paths_data) :
              LET file == files[fi][LoadedFiles[n]]
                  out  == paths_data[n]
                  S    == Len(file.names)
                  R    == Len(file.points) + RAW_HEADER_ROWS
              IN  /\ Len(out.rows) + 1 = R - 2
                  /\ Len(out.header) = 3 * S
                  /\ \A i \in 1..Len(out.rows) :
                        /\ Len(out.rows[i]) = 3 * S
                        /\ \A j \in 0..(S - 1) :
                              SheetFresh(file, i, j) <= SheetAll(file, i, j) =>
                                  Triple(out, i, j) = <<SheetAll(file, i, j),
                                                        SheetFresh(file, i, j),
                                                        SheetOld(file, i, j)>>

\* A sheet of two species has been aggregated, one of its blocks without a
\* correction and with counts in several sub-columns.
C2_Witness ==
    /\ pc = "read"
    /\ err = "none"
    /\ \E n \in 1..Len(paths_data) :
         LET file == files[fi][LoadedFiles[n]]
         IN  /\ Len(file.names) = 2
             /\ \E i \in 1..Len(file.points) :
                   /\ SheetBlock(file, i, 1) = BlockUnder
                   /\ Triple(paths_data[n], i, 1) = <<3, 1, 2>>

\* The log lines the correction rule owes for a sheet, in the order the loops
\* visit the cells: one per (row, species) with more browsed than offered,
\* carrying the species of the block, the row index and both counts.
OwedEntries(file) ==
    LET S      == Len(file.names)
        visits == [n \in 1..(Len(file.points) * S) |->
                      <<((n - 1) \div S) + 1, (n - 1) % S>>]
        fixes  == SelectSeq(visits,
                      LAMBDA v : SheetFresh(file, v[1], v[2]) > SheetAll(file, v[1], v[2]))
    IN  [n \in 1..Len(fixes) |->
            LogFix(file.names[fixes[n][2] + 1], fixes[n][1],
                   SheetAll(file, fixes[n][1], fixes[n][2]),
                   SheetFresh(file, fixes[n][1], fixes[n][2]))]

\* The lines of the log between the line of file (f, k) and the next file line
LogBlock(f, k) ==
    LET at   == CHOOSE a \in 1..Len(log) : log[a] = LogFile(f, k)
        next == {b \in (at + 1)..Len(log) : log[b].kind = "file"}
        to   == IF next = {} THEN Len(log)
                ELSE (CHOOSE b \in next : \A c \in next : b <= c) - 1
    IN  SubSeq(log, at + 1, to)

\* C3 (as claimed): for every (data row, species) of every sheet read, a
\* summed freshly_browsed above the summed all_shoots makes the output
\* all_shoots their sum and appends exactly one log line with the species,
\* the row index and both counts; otherwise all_shoots is the plain sum and
\* nothing is logged; freshly_browsed is never altered.
C3_CorrectionAndLog ==
    pc = "read" =>
        \A k \in 1..(ki - 1) :
            LET file == files[fi][k]
            IN  file.readable =>
                  /\ <<fi, k>> \notin Range(warned)
                  /\ LogBlock(fi, k) = OwedEntries(file)
                  /\ LET out == paths_data[CHOOSE n \in 1..Len(LoadedFiles) :
                                               LoadedFiles[n] = k]
                     IN  \A i \in 1..Len(file.points) :
                           \A j \in 0..(Len(file.names) - 1) :
                             /\ Triple(out, i, j)[1] =
                                  IF SheetFresh(file, i, j) > SheetAll(file, i, j)
                                  THEN SheetAll(file, i, j) + SheetFresh(file, i, j)
                                  ELSE SheetAll(file, i, j)
                             /\ Triple(out, i, j)[2] = SheetFresh(file, i, j)

\* C3 restricted to sheets whose blocks carry pairwise distinct species names.
DistinctNames(file) ==
    \A a, b \in 1..Len(file.names) : file.names[a] = file.names[b] => a = b

C3_DistinctNamesOnly ==
    pc = "read" =>
        \A k \in 1..(ki - 1) :
            LET file == files[fi][k]
            IN  (file.readable /\ DistinctNames(file)) =>
                  /\ <<fi, k>> \notin Range(warned)
                  /\ LogBlock(fi, k) = OwedEntries(file)
                  /\ LET out == paths_data[CHOOSE n \in 1..Len(LoadedFiles) :
                                               LoadedFiles[n] = k]
                     IN  \A i \in 1..Len(file.points) :
                           \A j \in 0..(Len(file.names) - 1) :
                             /\ Triple(out, i, j)[1] =
                                  IF SheetFresh(file, i, j) > SheetAll(file, i, j)
                                  THEN SheetAll(file, i, j) + SheetFresh(file, i, j)
                                  ELSE SheetAll(file, i, j)
                             /\ Triple(out, i, j)[2] = SheetFresh(file, i, j)

---------------------------------------------------------------------------
(* Claims about combine_forest                                             *)

\* The number of data rows of the paths before path p
RowsBefore(paths, p) == NpSum([q \in 1..(p - 1) |-> Len(paths[q].rows)])

\* combined is the first path's header followed by the data rows of all paths
\* in input order, nothing reordered, removed or added.
IsConcatenation(combined, paths) ==
    /\ combined.header = paths[1].header
    /\ Len(combined.rows) = RowsBefore(paths, Len(paths) + 1)
    /\ \A p \in 1..Len(paths) : \A i \in 1..Len(paths[p].rows) :
          combined.rows[RowsBefore(paths, p) + i] = paths[p].rows[i]

\* The reading loop has just combined the paths of the last folder:
\* paths_data is the list given to combine_forest, the last entry of forests
\* what it returned.
JustCombined == pc = "unknown" /\ fi = 1 /\ err = "none"

\* combine_forest has raised on the list paths_data.
CombineRaised == pc = "read" /\ err # "none"

\* C4 (as claimed): for every non-empty list of aggregated paths
\* combine_forest returns the first header followed by all data rows in input
\* order.
C4_CombineEveryList ==
    /\ CombineRaised => paths_data = <<>>
    /\ JustCombined => IsConcatenation(forests[Len(forests)], paths_data)

\* C4 (amended): for every non-empty list of aggregated paths that all have
\* the same number of columns, combine_forest returns the first path's header
\* followed by all data rows of all paths in input order; the header appears
\* once and the number of data rows is the sum of the paths' data rows.
C4_CombineEqualWidths ==
    /\ CombineRaised =>
          \/ paths_data = <<>>
          \/ \E p \in 1..Len(paths_data) :
                Len(paths_data[p].header) # Len(paths_data[1].header)
    /\ JustCombined => IsConcatenation(forests[Len(forests)], paths_data)

\* Two paths with different rows have been combined.
C4_Witness ==
    /\ JustCombined
    /\ Len(paths_data) = 2
    /\ paths_data[1].rows # paths_data[2].rows
    /\ Len(forests[Len(forests)].rows) = 2

---------------------------------------------------------------------------
(* Claims about the unknown-species collapse                               *)

\* The forest array the collapse of the last forest started from
BeforeCollapse ==
    [header |-> paths_data[1].header,
     rows   |-> Flatten([p \in 1..Len(paths_data) |-> paths_data[p].rows])]

\* The species (0-based) of an array of triples whose lower-cased name starts
\* with 'faj' or contains 'ismeretlen', and the others, both in column order
MatchedSpecies(matrix) ==
    SelectSeq([j1 \in 1..(Len(matrix.header) \div 3) |-> j1 - 1],
        LAMBDA j : LET name == Lower(SpeciesOf(Cell(matrix.header, 3 * j)))
                   IN  StartsWith(name, FAJ) \/ Contains(name, ISMERETLEN))

OtherSpecies(matrix) ==
    SelectSeq([j1 \in 1..(Len(matrix.header) \div 3) |-> j1 - 1],
        LAMBDA j : \A n \in 1..Len(MatchedSpecies(matrix)) : MatchedSpecies(matrix)[n] # j)

\* out is the collapse of before: the triple Unknown first, holding in every
\* row the sums over the matched triples, then every other triple with its
\* header, its values and its relative order unchanged.
IsCollapse(out, before) ==
    LET matched == MatchedSpecies(before)
        others  == OtherSpecies(before)
    IN  /\ Len(out.header) = 3 + 3 * Len(others)
        /\ SubSeq(out.header, 1, 3) = <<UNKNOWN \o ALL_SHOOTS, UNKNOWN \o FRESHLY_BROWSED,
                                        UNKNOWN \o OLD_BROWSED>>
        /\ \A n \in 1..Len(others) :
              SubSeq(out.header, 3 * n + 1, 3 * n + 3) =
                  SubSeq(before.header, 3 * others[n] + 1, 3 * others[n] + 3)
        /\ Len(out.rows) = Len(before.rows)
        /\ \A i \in 1..Len(before.rows) :
              /\ Len(out.rows[i]) = 3 + 3 * Len(others)
              /\ \A m \in 1..3 :
                    out.rows[i][m] =
                        NpSum([n \in 1..Len(matched) |-> Triple(before, i, matched[n])[m]])
              /\ \A n \in 1..Len(others) :
                    Triple(out, i, n) = Triple(before, i, others[n])

\* The collapse cell has finished with the last forest.
JustCollapsed == pc = "distributions" /\ fi = 1 /\ err = "none"

\* The collapse cell has raised.
CollapseRaised == pc = "unknown" /\ err # "none"

\* C5 (as claimed): for every forest array the collapse outputs the array
\* with the triple Unknown first, holding in every data row the sums over
\* exactly the triples whose lower-cased name starts with 'faj' or contains
\* 'ismeretlen' (zeros when none matches), the matched triples removed and
\* every other triple following unchanged in its relative order.
C5_UnknownCollapse ==
    /\ ~CollapseRaised
    /\ JustCollapsed => IsCollapse(forests[Len(forests)], BeforeCollapse)

\* C5 for the forests whose collapse does not raise.
C5_CollapseWhenReturned ==
    JustCollapsed => IsCollapse(forests[Len(forests)], BeforeCollapse)

---------------------------------------------------------------------------
(* Claims about the distribution properties                                *)

\* All forests have their distribution properties, none has them inserted
\* yet: forests[f] still is the array of triples the properties were
\* computed from.
JustDistributed == pc = "add_distributions" /\ fi = 1 /\ err = "none"

\* The number of data rows of a forest in which species j (0-based) has
\* nonzero all_shoots
RowsWithSupply(matrix, j) ==
    Cardinality({i \in 1..Len(matrix.rows) : Triple(matrix, i, j)[1] # 0})

\* The all_shoots of species j (0-based) summed over the data rows
SpeciesShoots(matrix, j) ==
    NpSum([i \in 1..Len(matrix.rows) |-> Triple(matrix, i, j)[1]])

\* The all_shoots of a forest over all rows and all species, Unknown included
ForestShoots(matrix) ==
    NpSum([j1 \in 1..(Len(matrix.header) \div 3) |-> SpeciesShoots(matrix, j1 - 1)])

\* C6: for every forest and species, coverage times the number of sampling
\* points of the forest is exactly the number of data rows of the forest in
\* which the species' all_shoots is nonzero.
C6_CoverageCountsRows ==
    JustDistributed =>
        \A f \in 1..Len(forests) :
            /\ Len(distributions[f].coverage) = Len(forests[f].header) \div 3
            /\ \A j \in 0..((Len(forests[f].header) \div 3) - 1) :
                  /\ distributions[f].species[j + 1] =
                         SpeciesOf(Cell(forests[f].header, 3 * j))
                  /\ RatMul(distributions[f].coverage[j + 1], Num(Len(forests[f].rows)))
                         = Num(RowsWithSupply(forests[f], j))

\* A forest of two sampling points has a species with supply at only one.
C6_Witness ==
    /\ JustDistributed
    /\ \E f \in 1..Len(forests) : \E j \in 0..((Len(forests[f].header) \div 3) - 1) :
          /\ Len(forests[f].rows) = 2
          /\ RowsWithSupply(forests[f], j) = 1
          /\ distributions[f].coverage[j + 1] = <<1, 2>>

\* C7: for every forest whose total all_shoots over all rows and species
\* (Unknown included) is above 0, the supply shares of its species sum to 1:
\* each share is the species' shoots over the forest total.
C7_SupplySharesSumToOne ==
    JustDistributed =>
        \A f \in 1..Len(forests) :
            ForestShoots(forests[f]) > 0 =>
                /\ Len(distributions[f].supply) = Len(forests[f].header) \div 3
                /\ RatSum(distributions[f].supply) = Num(1)
                /\ \A j \in 0..((Len(forests[f].header) \div 3) - 1) :
                      RatMul(distributions[f].supply[j + 1], Num(ForestShoots(forests[f])))
                          = Num(SpeciesShoots(forests[f], j))

\* A forest in which Unknown and a known species both have supply.
C7_Witness ==
    /\ JustDistributed
    /\ \E f \in 1..Len(forests) :
          /\ Len(forests[f].header) = 6
          /\ SpeciesShoots(forests[f], 0) > 0
          /\ SpeciesShoots(forests[f], 1) > 0
          /\ SpeciesShoots(forests[f], 0) # SpeciesShoots(forests[f], 1)

\* The distribution cell has reached forest fi and left its entry.
ReachedDistributionOf(f) == pc = "distributions" /\ fi = f /\ Len(distributions) >= f

\* C8 (as claimed): a forest whose total all_shoots is 0 is handled: the step
\* does not fail and every supply share of the forest is 0.
C8_ZeroTotalHandled ==
    \A f \in 1..Len(forests) :
        (ReachedDistributionOf(f) /\ ForestShoots(forests[f]) = 0) =>
            /\ err = "none"
            /\ \A j \in 1..Len(distributions[f].supply) :
                  distributions[f].supply[j] = Num(0)

---------------------------------------------------------------------------
(* Claims about the cross-forest merge                                     *)

\* The species of the forests as the merge meets them: forests in iteration
\* order, each forest's species in its column order (five columns each)
SpeciesInOrder ==
    Flatten([f \in 1..Len(forests) |->
        [j1 \in 1..(Len(forests[f].header) \div 5) |->
            SpeciesOf(Cell(forests[f].header, 5 * (j1 - 1)))]])

\* The first position of x in s
FirstPosition(s, x) == CHOOSE a \in 1..Len(s) : s[a] = x /\ \A b \in 1..(a - 1) : s[b] # x

\* The cell that determines the unique species has run.
SpeciesDetermined ==
    pc \in {"count_rows", "init_dataset", "merge", "normalize"}

\* C9: the canonical species list is the union of all forests' species
\* without duplicates, in the order of first encounter.
C9_CanonicalSpeciesList ==
    SpeciesDetermined =>
        /\ Range(species) = Range(SpeciesInOrder)
        /\ \A a, b \in 1..Len(species) :
              a < b => FirstPosition(SpeciesInOrder, species[a])
                         < FirstPosition(SpeciesInOrder, species[b])

\* Two forests share a species and each has one the other lacks, or they
\* have the same two species in opposite orders.
C9_Witness ==
    /\ SpeciesDetermined
    /\ Len(forests) = 2
    /\ SpeciesInOrder = <<UNKNOWN, NameBodza, NameMezeiSzil, UNKNOWN, NameMezeiSzil, NameBodza>>
    /\ species = <<UNKNOWN, NameBodza, NameMezeiSzil>>

\* The dataset exists.
DatasetInitialised == pc \in {"merge", "normalize"}

\* C10: the merged dataset has as many data rows as the forests have sampling
\* points in total, and 5 columns per species of the canonical list.
C10_DatasetShape ==
    DatasetInitialised =>
        /\ Len(dataset.rows) = NpSum([f \in 1..Len(forests) |-> Len(forests[f].rows)])
        /\ Len(dataset.header) = 5 * Len(species)
        /\ \A r \in 1..Len(dataset.rows) : Len(dataset.rows[r]) = 5 * Len(species)
        /\ (pc = "normalize" /\ err = "none") => dataset_row = Len(dataset.rows) + 1

\* Two forests with different species and different numbers of sampling
\* points have been merged.
C10_Witness ==
    /\ pc = "normalize"
    /\ err = "none"
    /\ Len(forests) = 2
    /\ Len(forests[1].rows) = 2
    /\ Len(forests[2].rows) = 1
    /\ Len(species) = 3
    /\ Len(dataset.rows) = 3
    /\ Len(dataset.header) = 15

---------------------------------------------------------------------------
(* Claims about the merged cells                                           *)

\* The merge loop has run over all forests; nothing has touched the dataset
\* since.
JustMerged == pc = "normalize" /\ err = "none"

\* The number of sampling points of the forests before forest f
RowsBeforeForest(f) == NpSum([g \in 1..(f - 1) |-> Len(forests[g].rows)])

\* The local columns (1-based) of a forest array whose header is the given one
LocalColumns(data, header) == {j \in 1..Len(data.header) : data.header[j] = header}

\* C11: after the merge the dataset rows are the forests' sampling points, in
\* forest iteration order and within a forest in row order, and every cell
\* of a row of forest X holds X's value under the identically named local
\* column if X has that column and 0 otherwise; a species absent from X has 0
\* in all its five fields in every row of X.
C11_MergedCells ==
    JustMerged =>
        \A f \in 1..Len(forests) : \A i \in 1..Len(forests[f].rows) :
            LET row == dataset.rows[RowsBeforeForest(f) + i]
            IN  /\ \A c \in 1..Len(dataset.header) :
                      LET local == LocalColumns(forests[f], dataset.header[c])
                      IN  /\ Cardinality(local) <= 1
                          /\ \A j \in local : row[c] = forests[f].rows[i][j]
                          /\ local = {} => row[c] = Num(0)
                /\ \A s \in 1..Len(species) :
                      species[s] \notin Range(forest_species(forests[f])) =>
                          SubSeq(row, 5 * s - 4, 5 * s) =
                              <<Num(0), Num(0), Num(0), Num(0), Num(0)>>

\* Two forests have been merged: the first has two sampling points with
\* different counts and lacks a species of the second, whose columns are 0
\* in its rows while its own columns are not.
C11_Witness ==
    /\ JustMerged
    /\ Len(forests) = 2
    /\ Len(forests[1].rows) = 2
    /\ forests[1].rows[1] # forests[1].rows[2]
    /\ dataset.rows[1] # dataset.rows[2]
    /\ \E s \in 1..Len(species) :
          /\ species[s] \notin Range(forest_species(forests[1]))
          /\ species[s] \in Range(forest_species(forests[2]))
          /\ dataset.rows[3][5 * s - 4] # Num(0)
          /\ dataset.rows[1][5 * s - 4] = Num(0)

---------------------------------------------------------------------------
(* Claims about the additional processing of the dataset                   *)

\* C12: the normalisation cell replaces, in every freshly browsed column and
\* every data row, the count by count / all_shoots when the cell immediately
\* before it (the species' all shoots) is nonzero, so that the proportion
\* times all_shoots is the count; it leaves 0 when all_shoots is 0; and it
\* changes no other column, nor the header.  The rule of the cell gives 0
\* for all_shoots 0 whatever the count, also for the counts above 0 that no
\* run of the notebook brings to the cell.
C12_FreshNormalisation ==
    [][Normalize =>
          /\ \A count \in 0..3 :
                /\ normalized(Num(0), Num(count)) = Num(0)
                /\ \A all_offered \in 1..3 :
                      RatMul(normalized(Num(all_offered), Num(count)), Num(all_offered))
                          = Num(count)
          /\ dataset'.header = dataset.header
          /\ Len(dataset'.rows) = Len(dataset.rows)
          /\ \A i \in 1..Len(dataset.rows) :
                /\ Len(dataset'.rows[i]) = Len(dataset.header)
                /\ \A c \in 1..Len(dataset.header) :
                      IF Contains(dataset.header[c], Tail(FRESHLY_BROWSED))
                      THEN /\ c > 1
                           /\ dataset.header[c - 1] =
                                  SpeciesOf(dataset.header[c]) \o ALL_SHOOTS
                           /\ dataset.rows[i][c - 1] # Num(0) =>
                                  RatMul(dataset'.rows[i][c], dataset.rows[i][c - 1])
                                      = dataset.rows[i][c]
                           /\ dataset.rows[i][c - 1] = Num(0) =>
                                  dataset'.rows[i][c] = Num(0)
                      ELSE dataset'.rows[i][c] = dataset.rows[i][c]]_vars

\* The cell has normalised a dataset: one sampling point has a species with
\* 1 of 3 shoots freshly browsed, now 1/3, and a species without shoots,
\* whose proportion is 0.
C12_Witness ==
    /\ pc = "remove_old"
    /\ \E i \in 1..Len(dataset.rows) : \E c, d \in 2..Len(dataset.header) :
          /\ Contains(dataset.header[c], Tail(FRESHLY_BROWSED))
          /\ Contains(dataset.header[d], Tail(FRESHLY_BROWSED))
          /\ dataset.rows[i][c - 1] = Num(3)
          /\ dataset.rows[i][c] = <<1, 3>>
          /\ dataset.rows[i][d - 1] = Num(0)
          /\ dataset.rows[i][d] = Num(0)

\* The target matrix exists.
TargetSplit ==
    pc \in {"save_target", "distinguish", "save_distinguished", "predictors",
            "save_predictors", "done"}

\* 0 <= p <= 1
IsProportion(p) == ~RatLess(p, Num(0)) /\ ~RatLess(Num(1), p)

\* C13: whatever non-negative counts the sheets hold, every value of the
\* target matrix is a proportion between 0 and 1 inclusive; on the way, the
\* forest arrays after the unknown collapse and the merged dataset have
\* all_shoots >= freshly_browsed >= 0 in every row for every species.
C13_TargetsAreProportions ==
    /\ TargetSplit =>
          \A i \in 1..Len(target_values.rows) : \A c \in 1..Len(target_values.header) :
              IsProportion(target_values.rows[i][c])
    /\ (pc = "distributions" /\ fi = 1) =>
          \A f \in 1..Len(forests) : \A i \in 1..Len(forests[f].rows) :
              \A j \in 0..((Len(forests[f].header) \div 3) - 1) :
                  /\ Triple(forests[f], i, j)[2] >= 0
                  /\ Triple(forests[f], i, j)[1] >= Triple(forests[f], i, j)[2]
    /\ JustMerged =>
          \A i \in 1..Len(dataset.rows) : \A s \in 1..Len(species) :
              /\ ~RatLess(dataset.rows[i][5 * s - 3], Num(0))
              /\ ~RatLess(dataset.rows[i][5 * s - 4], dataset.rows[i][5 * s - 3])

\* The notebook has run to its end on a forest with two unknown species: at
\* one sampling point the sheets recorded more freshly browsed than offered
\* shoots for one (2 and 3, corrected to 5 and 3) and less for the other (3
\* and 1), and Unknown's target is 4/8; at another only the first was there,
\* and the target is 3/5.
C13_Witness ==
    /\ pc = "done"
    /\ target_values.header[1] = UNKNOWN \o FRESHLY_BROWSED
    /\ \E i \in 1..Len(target_values.rows) : target_values.rows[i][1] = <<1, 2>>
    /\ \E i \in 1..Len(target_values.rows) : target_values.rows[i][1] = <<3, 5>>

\* The distinguished target matrix exists.
TargetDistinguished ==
    pc \in {"save_distinguished", "predictors", "save_predictors", "done"}

\* The dataset columns (1-based) holding the all shoots of the species of a
\* target header
AllShootsColumns(header) ==
    {c \in 1..Len(dataset.header) : dataset.header[c] = SpeciesOf(header) \o ALL_SHOOTS}

---------------------------------------------------------------------------
(* Claims about the rename cell                                            *)

\* The species of the header cells
HeaderSpecies(header) == {SpeciesOf(header[c]) : c \in 1..Len(header)}

\* The Latin names
LatinNames == {names_dict[name] : name \in DOMAIN names_dict}

\* The rename cell has been passed.
Renamed ==
    pc \in {"save_dataset", "target", "save_target", "distinguish",
            "save_distinguished", "predictors", "save_predictors", "done"}

\* C15 (as claimed): a species other than Unknown without an entry in
\* names_dict makes the rename cell fail with a reported error, not with an
\* exception nothing handles, and stops the processing of the dataset: no
\* header passes unrenamed and no dataset, predictor or target file is
\* written; Unknown is not looked up and keeps its name.
C15_RenameFailureReported ==
    /\ ~(pc = "rename" /\ err # "none")
    /\ Renamed => HeaderSpecies(dataset.header) \subseteq LatinNames \cup {UNKNOWN}
    /\ saved # <<>> => HeaderSpecies(dataset.header) \subseteq LatinNames \cup {UNKNOWN}

\* C15 without the manner of failing: once the rename cell is passed every
\* header is renamed or Unknown's, and files are only written then; when a
\* name has no entry the notebook stops in the rename cell and writes
\* nothing; the Unknown headers are unchanged in either case.
C15_RenameStopsOrRenamesAll ==
    /\ Renamed => HeaderSpecies(dataset.header) \subseteq LatinNames \cup {UNKNOWN}
    /\ saved # <<>> => Renamed
    /\ (pc = "rename" /\ err # "none") =>
          /\ err = "KeyError"
          /\ saved = <<>>
          /\ HeaderSpecies(dataset.header) \ (LatinNames \cup {UNKNOWN}) # {}
    /\ (Renamed \/ (pc = "rename" /\ err # "none")) =>
          SubSeq(dataset.header, 1, 4) =
              <<UNKNOWN \o ALL_SHOOTS, UNKNOWN \o FRESHLY_BROWSED,
                UNKNOWN \o FOREST_COVERAGE, UNKNOWN \o SUPPLY_PERCENTAGE>>

---------------------------------------------------------------------------
(* Claims about failing files                                              *)

\* The files of folder f that the reading loop has warned about
FailedFiles(f) == {k \in 1..Len(files[f]) : <<f, k>> \in Range(warned)}

\* The number of times the reading loop has started on file k of folder f
TimesStarted(f, k) == Cardinality({n \in 1..Len(log) : log[n] = LogFile(f, k)})

\* The failing files are skipped and reported and no file is read twice:
\* every file the loop has passed was started once and is warned about once
\* or not at all, only files that cannot be read or aggregated are warned
\* about, and a combined forest has the sampling points of the other files
\* only.
FailuresSkipped ==
    /\ \A n, m \in 1..Len(warned) : warned[n] = warned[m] => n = m
    /\ \A n \in 1..Len(warned) :
          LET file == files[warned[n][1]][warned[n][2]]
          IN  ~file.readable \/ aggregate_data(read_forest_data(file)).raised
    /\ pc = "read" =>
          /\ \A k \in 1..(ki - 1) : TimesStarted(fi, k) = 1
          /\ Len(paths_data) + Cardinality(FailedFiles(fi)) = ki - 1
    /\ JustCombined =>
          Len(forests[Len(forests)].rows) =
              NpSum([k \in 1..Len(files[Len(forests)]) |->
                        IF k \in FailedFiles(Len(forests)) THEN 0
                        ELSE Len(files[Len(forests)][k].points)])

\* C16 (as claimed): whichever files fail to be read or aggregated, all the
\* files of a folder included, the failing files contribute no rows, are
\* reported and not retried, and the batch goes on with the remaining files
\* and forests: the reading loop does not stop because of them.  (It stops
\* on paths of different widths, files failing or not.)
C16_FailuresIsolated ==
    /\ FailuresSkipped
    /\ (CombineRaised /\ warned # <<>>) =>
          \E p \in 1..Len(paths_data) :
              Len(paths_data[p].header) # Len(paths_data[1].header)

\* C16 for the folders of which at least one file is read and aggregated.
C16_FailuresSkippedPerFile == FailuresSkipped

---------------------------------------------------------------------------
(* The forecast notebook: properties of its steps                          *)

\* The shoots of species j1 (1-based) in the input rows from..upto
InputShoots(j1, from, upto) ==
    NpSum([k \in 1..(upto - from + 1) |-> forest_data.rows[from + k - 1][j1]])

\* The number of input rows
InputRows == Len(forest_data.rows)

\* The number of input columns
InputSpecies == Len(forest_data.columns)

\* The input rows where species j1 has shoots
InputPresence(j1) == Cardinality({i \in 1..InputRows : forest_data.rows[i][j1] # 0})

\* The shoots of all species in all input rows
InputAllShoots == NpSum([j1 \in 1..InputSpecies |-> InputShoots(j1, 1, InputRows)])

\* The F/RPS cell has completed
PropertiesDone ==
    /\ err = "none"
    /\ pc \in {"unaggregated", "sections", "normalize_TS", "load_models",
               "section_estimates", "forest_estimates", "print_results",
               "save_output", "forecast_done"}

\* C17: once the F/RPS cell has completed, the F of every species is the
\* number of input rows where the species has shoots divided by the number
\* of input rows, and its RPS is its shoots over all input rows divided by
\* the shoots of all species over all input rows, the first row included.
C17_PropertiesOverAllRows ==
    PropertiesDone /\ InputAllShoots # 0 =>
        \A j1 \in 1..InputSpecies :
            /\ properties_table.F[j1] = Rat(InputPresence(j1), InputRows)
            /\ properties_table.RPS[j1] = Rat(InputShoots(j1, 1, InputRows), InputAllShoots)

\* What the cell computes instead: the first row is left out of the counts
\* and the sums, while F is still divided by the number of all rows.
C17_PropertiesSkipFirstRow ==
    PropertiesDone =>
        \A j1 \in 1..InputSpecies :
            /\ properties_table.F[j1] =
                   Rat(Cardinality({i \in 2..InputRows : forest_data.rows[i][j1] # 0}),
                       InputRows)
            /\ properties_table.RPS[j1] =
                   Rat(InputShoots(j1, 2, InputRows),
                       NpSum([j2 \in 1..InputSpecies |-> InputShoots(j2, 2, InputRows)]))

\* The section cell has just completed: data holds the sums, not yet
\* normalized
SectionsDone == err = "none" /\ pc = "normalize_TS"

\* C18: for an input of 5*k rows, the section cell leaves k sections; the TS
\* of section i (0-based) and a species is the sum of the species' shoots over
\* the input rows 5i..5i+4, so that every input row is in exactly one section
\* and the sections together hold all the shoots of the input; the F and RPS
\* of a section are the values of the properties table.
C18_SectionsOfFive ==
    SectionsDone /\ InputRows % 5 = 0 =>
        /\ Len(section_data) * 5 = InputRows
        /\ \A s1 \in 1..Len(section_data), j1 \in 1..InputSpecies :
              /\ section_data[s1][3 * j1 - 2] = Num(InputShoots(j1, 5 * s1 - 4, 5 * s1))
              /\ section_data[s1][3 * j1 - 1] = properties_table.F[j1]
              /\ section_data[s1][3 * j1] = properties_table.RPS[j1]
        /\ \A j1 \in 1..InputSpecies :
              RatSum([s1 \in 1..Len(section_data) |-> section_data[s1][3 * j1 - 2]])
                  = Num(InputShoots(j1, 1, InputRows))

\* Two sections of different supply, of a species present in the first row
\* of each
C18_Witness ==
    /\ SectionsDone
    /\ InputRows = 10
    /\ InputSpecies = 2
    /\ section_data[1][1] = Num(5)
    /\ section_data[2][1] = Num(1)
    /\ section_data[1][4] = Num(4)
    /\ section_data[2][4] = Num(0)
    /\ section_data[2][3] # section_data[2][6]

\* A forecast has been produced: estimated, printed or written
ForecastProduced == forest_estimates # <<>> \/ printed # <<>> \/ output # <<>>

\* C19 (as claimed): a run whose input has a number of rows that is not a
\* multiple of 5, another number of columns than the models take, or a
\* missing model file, ends in a failure and produces no forecast.
C19_BadInputFails ==
    (InputRows % 5 # 0 \/ InputSpecies # TrainedSpecies \/ forest_data.models < TrainedSpecies)
        => /\ ~ForecastProduced
           /\ pc # "forecast_done"

\* What holds: a wrong number of columns or a missing model file stops the
\* run with an uncaught exception before any forecast; surplus rows do not.
C19_BadColumnsOrModelsFail ==
    (InputSpecies # TrainedSpecies \/ forest_data.models < TrainedSpecies)
        => /\ ~ForecastProduced
           /\ pc \notin {"forest_estimates", "print_results", "save_output", "forecast_done"}

\* The section estimates cell has completed
EstimatesDone ==
    /\ err = "none"
    /\ pc \in {"forest_estimates", "print_results", "save_output", "forecast_done"}

\* The raw prediction of species j1 for section s1 (both 1-based)
RawPrediction(s1, j1) == models[j1][s1]

\* The adjusted prediction the claim describes, from a section's supply and
\* the raw prediction
ClaimedAdjustment(supply, raw) ==
    IF supply = 0 THEN noSupply_value
    ELSE IF RatLess(raw, Num(0)) THEN Num(0)
    ELSE raw

\* C20 (as claimed): once the section estimates are made, the adjusted
\* prediction of every section and species is the no-supply value exactly
\* when the species' shoots summed over the section's five rows are 0, and
\* otherwise 0 for a negative raw prediction and the raw prediction itself
\* for a non-negative one.
C20_AdjustedBySupply ==
    EstimatesDone =>
        \A s1 \in 1..Len(section_estimates), j1 \in 1..InputSpecies :
            /\ section_estimates[s1][j1] = noSupply_value
                   <=> InputShoots(j1, 5 * s1 - 4, 5 * s1) = 0
            /\ section_estimates[s1][j1] =
                   ClaimedAdjustment(InputShoots(j1, 5 * s1 - 4, 5 * s1),
                                     RawPrediction(s1, j1))

\* What the cell computes: the adjustment reads the TS column after
\* normalize_TS, which is 0 for the sections with the least supply of the
\* species, whatever that supply is.
C20_AdjustedByNormalizedSupply ==
    EstimatesDone =>
        \A s1 \in 1..Len(section_estimates), j1 \in 1..InputSpecies :
            LET least == \A s2 \in 1..Len(section_estimates) :
                             InputShoots(j1, 5 * s1 - 4, 5 * s1)
                                 <= InputShoots(j1, 5 * s2 - 4, 5 * s2)
            IN  section_estimates[s1][j1] =
                    ClaimedAdjustment(IF least THEN 0 ELSE 1, RawPrediction(s1, j1))

\* The forest estimates cell has completed
ForestEstimatesDone ==
    /\ err = "none"
    /\ pc \in {"print_results", "save_output", "forecast_done"}

\* The shoots of species j1 in the five input rows of section s1
SectionSupply(s1, j1) == InputShoots(j1, 5 * s1 - 4, 5 * s1)

\* The shoots of species j1 in all the sections
ForestSupply(j1) ==
    NpSum([s1 \in 1..Len(section_estimates) |-> SectionSupply(s1, j1)])

\* The weight the claim gives section s1 for species j1
SupplyWeight(s1, j1) == Rat(SectionSupply(s1, j1), ForestSupply(j1))

\* C21 (as claimed): for every species with shoots in the forest, the forest
\* forecast is the sum over the sections of weight * adjusted section
\* prediction, the weight of a section being its shoots of the species (the
\* sum of its 5 points) divided by the species' shoots in the whole forest;
\* these weights sum to 1.
C21_WeightedBySupply ==
    ForestEstimatesDone =>
        \A j1 \in 1..InputSpecies :
            ForestSupply(j1) # 0 =>
                /\ RatSum([s1 \in 1..Len(section_estimates) |-> SupplyWeight(s1, j1)]) = Num(1)
                /\ forest_estimates[j1] =
                       RatSum([s1 \in 1..Len(section_estimates) |->
                                  RatMul(SupplyWeight(s1, j1), section_estimates[s1][j1])])

\* What the cell computes: the weights are taken from the TS column after
\* normalize_TS; they sum to 1 when that column is not all 0, and otherwise
\* the forecast is the no-supply value.
C21_WeightedByNormalizedSupply ==
    ForestEstimatesDone =>
        \A j1 \in 1..InputSpecies :
            LET total == RatSum([s1 \in 1..Len(section_data) |-> section_data[s1][3 * j1 - 2]])
            IN  IF total = Num(0) THEN forest_estimates[j1] = noSupply_value
                ELSE /\ RatSum([s1 \in 1..Len(section_data) |->
                                   RatDiv(section_data[s1][3 * j1 - 2], total)]) = Num(1)
                     /\ forest_estimates[j1] =
                            RatSum([s1 \in 1..Len(section_data) |->
                                       RatMul(RatDiv(section_data[s1][3 * j1 - 2], total),
                                              section_estimates[s1][j1])])

\* C22 (as claimed): a species' forest forecast is the no-supply value, and
\* its printed forecast the NaN marker, if and only if the species has no
\* shoots in any input row; a species with shoots always gets a forecast
\* that is a proportion.
C22_SentinelIffNoShoots ==
    ForestEstimatesDone =>
        \A j1 \in 1..InputSpecies :
            /\ forest_estimates[j1] = noSupply_value <=> InputShoots(j1, 1, InputRows) = 0
            /\ printed # <<>> => (printed[j1].nan <=> InputShoots(j1, 1, InputRows) = 0)

\* What holds: a species without shoots gets the no-supply value and the NaN
\* marker; so does every species whose sections all have the same supply.
C22_SentinelIfNoShoots ==
    ForestEstimatesDone =>
        \A j1 \in 1..InputSpecies :
            (\A s1, s2 \in 1..Len(section_estimates) :
                 SectionSupply(s1, j1) = SectionSupply(s2, j1))
                => /\ forest_estimates[j1] = noSupply_value
                   /\ printed # <<>> => printed[j1].nan

C23_SingleSectionSentinel ==
    ForestEstimatesDone /\ InputRows = 5 =>
        \A j1 \in 1..InputSpecies :
            /\ forest_estimates[j1] = section_estimates[1][j1]
            /\ forest_estimates[j1] = noSupply_value

---------------------------------------------------------------------------
(* The correction rule applied again                                       *)

MaxCount == 6

\* A raw array that carries the counts of an aggregated array: per species
\* block, all shoots in the first sub-column, freshly browsed in the fifth
\* and old browsed in the ninth, under the header of the sheet it came from
RawOfAggregated(file, matrix) ==
    [header |-> read_forest_data(file).header,
     body   |-> [i \in 1..Len(matrix.rows) |->
                    Flatten([jj \in 1..Len(file.names) |->
                        <<Triple(matrix, i, jj - 1)[1], 0, 0, 0,
                          Triple(matrix, i, jj - 1)[2], 0, 0, 0,
                          Triple(matrix, i, jj - 1)[3]>>])]]

\* C24: the correction rule is idempotent.  For all counts 0..MaxCount, the
\* corrected all_shoots is not below freshly_browsed, so the rule does not
\* trigger on a corrected pair and leaves it as it is; and aggregating again
\* the counts of an array that aggregate_data returned appends no log entry
\* and returns the same counts.
C24_CorrectionIdempotent ==
    /\ \A shoots, browsed \in 0..MaxCount :
          /\ ~(browsed > corrected_shoots(shoots, browsed))
          /\ corrected_shoots(corrected_shoots(shoots, browsed), browsed)
                 = corrected_shoots(shoots, browsed)
    /\ pc = "read" =>
          \A n \in 1..Len(paths_data) :
              LET again == aggregate_data(RawOfAggregated(files[fi][LoadedFiles[n]],
                                                          paths_data[n]))
              IN  /\ ~again.raised
                  /\ again.entries = <<>>
                  /\ again.aggregated.rows = paths_data[n].rows

\* A sheet has been aggregated with a correction (2 offered, 3 browsed, stored
\* as 5 and 3) next to a block that needed none
C24_Witness ==
    /\ pc = "read"
    /\ err = "none"
    /\ \E n \in 1..Len(paths_data) :
          /\ Len(files[fi][LoadedFiles[n]].names) = 2
          /\ \E i \in 1..Len(paths_data[n].rows) :
                /\ SheetBlock(files[fi][LoadedFiles[n]], i, 0) = BlockOver
                /\ Triple(paths_data[n], i, 0) = <<5, 3, 1>>
                /\ SheetBlock(files[fi][LoadedFiles[n]], i, 1) = BlockEqual
    /\ \E e \in Range(log) : e.kind = "fix"

---------------------------------------------------------------------------
(* The labels of the aggregated header                                     *)

\* The three labels the claim gives the triple of a species
LabelsOf(name) == <<name \o ALL_SHOOTS, name \o FRESHLY_BROWSED, name \o OLD_BROWSED>>

\* The header of the array aggregated from a file labels triple j with the
\* name of block j of the sheet, for every j
LabelledInBlockOrder(file, matrix) ==
    /\ Len(matrix.header) = 3 * Len(file.names)
    /\ \A j \in 0..(Len(file.names) - 1) :
          SubSeq(matrix.header, 3 * j + 1, 3 * j + 3) = LabelsOf(file.names[j + 1])

\* C25 (as claimed): every array aggregate_data returns labels its j-th
\* column triple with the species name of the j-th 9-column block of the raw
\* header, in raw header order, also when two blocks carry the same name.
C25_HeaderInBlockOrder ==
    pc = "read" =>
        \A n \in 1..Len(paths_data) :
            LabelledInBlockOrder(files[fi][LoadedFiles[n]], paths_data[n])

\* C25 for the sheets whose blocks all carry different names.
C25_HeaderOfDistinctNames ==
    pc = "read" =>
        \A n \in 1..Len(paths_data) :
            LET file == files[fi][LoadedFiles[n]]
            IN  (\A j, k \in 1..Len(file.names) : file.names[j] = file.names[k] => j = k)
                    => LabelledInBlockOrder(file, paths_data[n])

---------------------------------------------------------------------------
(* The blocks of the correction log                                        *)

\* The files the reading loop has been through, as <<forest, file>> in
\* processing order: all of them once the loop is over
ProcessedFiles ==
    Flatten([f \in 1..Len(files) |->
        [k \in 1..(IF pc # "read" \/ f < fi THEN Len(files[f])
                   ELSE IF f = fi THEN ki - 1 ELSE 0) |-> <<f, k>>]])

\* The positions of the file lines in the log
FileLines == SelectSeq([a \in 1..Len(log) |-> a], LAMBDA a : log[a].kind = "file")

\* The lines after the n-th file line, up to the next file line
BlockOfLine(n) ==
    SubSeq(log, FileLines[n] + 1,
           IF n < Len(FileLines) THEN FileLines[n + 1] - 1 ELSE Len(log))

\* The cells of a sheet with more browsed than offered shoots, in the order
\* the loops visit them, as <<row, all, fresh>>
SheetViolations(file) ==
    LET S      == Len(file.names)
        visits == [n \in 1..(Len(file.points) * S) |->
                      <<((n - 1) \div S) + 1, (n - 1) % S>>]
        fixes  == SelectSeq(visits,
                      LAMBDA v : SheetFresh(file, v[1], v[2]) > SheetAll(file, v[1], v[2]))
    IN  [n \in 1..Len(fixes) |->
            <<fixes[n][1], SheetAll(file, fixes[n][1], fixes[n][2]),
              SheetFresh(file, fixes[n][1], fixes[n][2])>>]

\* A block holds the entries of the file: nothing for a file that cannot be
\* read, else one entry per violation of the sheet, in order, up to the
\* point where aggregate_data stopped (all of them for a file it returned)
BlockOfFile(pair, block) ==
    LET file == files[pair[1]][pair[2]]
        owed == IF file.readable THEN SheetViolations(file) ELSE <<>>
    IN  /\ Len(block) <= Len(owed)
        /\ \A e \in 1..Len(block) :
              /\ block[e].kind = "fix"
              /\ <<block[e].row, block[e].all, block[e].fresh>> = owed[e]
        /\ pair \notin Range(warned) => Len(block) = Len(owed)

\* C26: the log is a sequence of blocks, one per file the reading loop has
\* been through (all the files once the loop is over), in processing order:
\* the line of the file, then exactly the correction entries of that file's
\* sheet; a file without violations has an empty block.
C26_LogBlocksPerFile ==
    /\ log # <<>> => log[1].kind = "file"
    /\ Len(FileLines) = Len(ProcessedFiles)
    /\ \A n \in 1..Len(FileLines) :
          /\ log[FileLines[n]].file = ProcessedFiles[n]
          /\ BlockOfFile(ProcessedFiles[n], BlockOfLine(n))

\* The loop is over, with two forests of two files each: the log has a file
\* with entries followed by a file without, and a file without followed by
\* a file with entries
C26_Witness ==
    /\ JustCombined
    /\ Len(FileLines) = 4
    /\ \E n, m \in 1..3 :
          /\ BlockOfLine(n) # <<>>
          /\ BlockOfLine(n + 1) = <<>>
          /\ BlockOfLine(m) = <<>>
          /\ BlockOfLine(m + 1) # <<>>

---------------------------------------------------------------------------
(* Every forest processed as if alone                                      *)

\* The arrays aggregate_data returns for the files of one folder, in order,
\* the files that cannot be read or aggregated left out
AlonePaths(folder) ==
    LET good == SelectSeq([k \in 1..Len(folder) |-> k],
                    LAMBDA k : /\ folder[k].readable
                               /\ ~aggregate_data(read_forest_data(folder[k])).raised)
    IN  [n \in 1..Len(good) |-> aggregate_data(read_forest_data(folder[good[n]])).aggregated]

\* The distribution properties of one forest array
AloneDistributions(data) ==
    [species  |-> distribution_species(data),
     coverage |-> coverages(data),
     supply   |-> supplyPerces(data)]

\* The enriched array of one folder processed alone (read, aggregate,
\* combine, collapse, enrich), and whether every step returns
AloneEnriched(folder) ==
    LET c == combine_forest(AlonePaths(folder)) IN
    IF c.raised # "none" THEN [ok |-> FALSE, matrix |-> <<>>]
    ELSE IF \E i1 \in 1..(Len(c.combined.header) \div 3) :
                ~IsStr(Cell(c.combined.header, (i1 - 1) * 3))
    THEN [ok |-> FALSE, matrix |-> <<>>]
    ELSE LET u == aggregate_unknown(c.combined) IN
         IF Len(u.rows) = 0 \/ forest_all_shoots(u) = 0
         THEN [ok |-> FALSE, matrix |-> <<>>]
         ELSE [ok |-> TRUE,
               matrix |-> insert_distributions(as_numbers(u), AloneDistributions(u),
                                               Len(distribution_species(u)))]

\* The notebook takes no further step
RunOver == err # "none" \/ pc = "done"

\* The enrichment cell has been through all the forests
AllEnriched ==
    pc \notin {"read", "unknown", "distributions", "add_distributions"}

\* C27 (as claimed): whatever the other forests of the run and their order,
\* a run leaves for every forest the enriched array that the forest gets
\* when it is processed alone.
C27_ForestsIndependent ==
    RunOver =>
        \A f \in 1..Len(files) :
            AloneEnriched(files[f]).ok =>
                /\ f <= Len(forests)
                /\ forests[f] = AloneEnriched(files[f]).matrix

\* What holds: once the enrichment cell has been through all the forests,
\* every forest has the enriched array it gets when processed alone; a run
\* that a forest stops before that leaves no forest enriched.
C27_IndependentWhenAllReturn ==
    /\ AllEnriched =>
          /\ Len(forests) = Len(files)
          /\ \A f \in 1..Len(files) :
                /\ AloneEnriched(files[f]).ok
                /\ forests[f] = AloneEnriched(files[f]).matrix
    /\ (err # "none" /\ ~AllEnriched) =>
          \A f \in 1..Len(forests) :
              AloneEnriched(files[f]).ok => forests[f] # AloneEnriched(files[f]).matrix

---------------------------------------------------------------------------
(* The sign of the forecast                                                *)

\* The weight the forest estimates cell gives section s1 for species j1
UsedWeight(s1, j1) ==
    RatDiv(section_data[s1][3 * j1 - 2],
           RatSum([s2 \in 1..Len(section_data) |-> section_data[s2][3 * j1 - 2]]))

\* C28: every forest forecast is the no-supply value or not negative, because
\* a section whose adjusted prediction is the no-supply value has weight 0 in
\* the weighted average of every species that has one.
C28_SentinelOrNonNegative ==
    ForestEstimatesDone =>
        \A j1 \in 1..InputSpecies :
            /\ forest_estimates[j1] = noSupply_value \/ ~RatLess(forest_estimates[j1], Num(0))
            /\ forest_estimates[j1] # noSupply_value =>
                   \A s1 \in 1..Len(section_estimates) :
                       section_estimates[s1][j1] = noSupply_value
                           => UsedWeight(s1, j1) = Num(0)
            /\ printed # <<>> => (printed[j1].nan <=> forest_estimates[j1] = noSupply_value)

\* Two sections of different supply: the forecast of the species is the
\* positive prediction of the section with more supply, the other section
\* having the no-supply value and weight 0
C28_Witness ==
    /\ ForestEstimatesDone
    /\ printed # <<>>
    /\ Len(section_estimates) = 2
    /\ section_estimates[1][1] = noSupply_value
    /\ section_estimates[2][1] = <<1, 2>>
    /\ forest_estimates[1] = <<1, 2>>
    /\ SectionSupply(1, 1) > 0
    /\ forest_estimates[2] = noSupply_value
    /\ printed[2].nan
    /\ ~printed[1].nan

=============================================================================
